---- MODULE Spec2Model ----
(***************************************************************************)
(* Capture-orchestration state machines of the pitch-deck downloaders.     *)
(*                                                                         *)
(* One downloader object performs one download_presentation run: launch    *)
(* the browser, navigate, detect the slide count, go to the first slide,   *)
(* capture/advance per slide under a time budget, assemble the PDF, close  *)
(* the browser.  The browser page (the remote surface) is the environment: *)
(* its answers and failures are nondeterministic choices.                  *)
(*                                                                         *)
(*   Spec        NuclearPitchDownloader  (src/pitch_downloader_nuclear.py) *)
(*   SpecRobust  RobustPitchDownloader   (src/pitch_downloader_robust.py)  *)
(***************************************************************************)
EXTENDS Integers, Sequences, FiniteSets, TLC

VARIABLES
    max_slides,         \* self.max_slides
    timeout,            \* self.timeout (seconds)
    browser,            \* the launched browser: "none" | "open" | "closed" |
                        \* "close_failed" (close() raised, still running)
    shutdown_requested, \* self._shutdown_requested (RobustPitchDownloader)
    requested_at,       \* position of the run when the signal was delivered
    pc,                 \* position of the run inside download_presentation
    elapsed,            \* loop.time() - start_time, in whole seconds
    total_slides,       \* local total_slides of download_presentation
    method,             \* return path taken by the slide-count detection
    slide_count,        \* local slide_count of the navigation probe
    probe_i,            \* loop index i of the navigation probe
    slide_num,          \* loop variable of the capture loop
    screenshots,        \* local list screenshots (frames, in append order)
    result,             \* the dict returned to the caller
    numPages,           \* surface: number of pages of the presentation
    curPage,            \* surface: page currently displayed
    last_capture,       \* outcome of the latest capture_slide call
    failed,             \* slide numbers whose capture returned None
    stopped,            \* why the capture loop ended
    observed,           \* where the shutdown flag was seen set by the run
    keys,               \* key presses delivered to the surface so far
    shots,              \* page.screenshot calls issued so far
    captures,           \* capture_slide calls started so far
    advances,           \* navigate_to_next_slide calls of the capture loop
    pdf_calls,          \* calls of create_pdf_from_screenshots
    slide_text,         \* local slide_text of detect_slide_count, while
                        \* method 1 runs
    match,              \* the pair (current, total) method 2 of the detection
                        \* has just returned from, << >> otherwise
    faithful,           \* the answers of the surface to the detection agree
                        \* with the presentation (numPages, curPage)
    dom,                \* surface: the document the readiness predicate reads
    verdict,            \* latest value of the readiness predicate
    counts,             \* surface: elements matched by the class-name
                        \* selectors of the slide, dot/indicator and
                        \* pagination families
    attempt,            \* readiness evaluations issued for the slide being
                        \* captured (StealthPitchDownloader)
    page_url,           \* surface: what the page of a DirectPitchDownloader
                        \* has loaded, "about:blank" or "target"
    surface,            \* the answers the surface gives to a run, where
                        \* they are fixed before the run
    runs,               \* what each of the two compared variants did and
                        \* returned, "none" before its run
    downloaders,        \* the RobustPitchDownloader objects of the process
    handlers            \* the signal table of the process: for each signal,
                        \* "default" or the object whose _signal_handler is
                        \* installed

vars == << max_slides, timeout, browser, shutdown_requested, requested_at,
           pc, elapsed, total_slides, method, slide_count, probe_i, slide_num, screenshots,
           result, numPages, curPage, last_capture, failed, stopped, observed,
           keys, shots, captures, advances, pdf_calls, slide_text, match,
           faithful, dom, verdict, counts, attempt, page_url, surface, runs,
                    downloaders,
           handlers >>

----------------------------------------------------------------------------
(* Bounds of the model *)

MaxBudget == 3
MaxPages == 3
MaxTextLen == 4
MaxMatches == 2
MaxLoading == 1
MaxImages == 2

\* max_slides given to the constructor
BudgetValues == 1..MaxBudget
\* timeout given to the constructor, in seconds: the capture cutoff
\* timeout - 30 is then 0, 15 or 30 seconds, so runs are cut at the first
\* slide, after one or two slides, or complete up to four slides
TimeoutValues == {30, 45, 60}
\* pages of the presentation shown by the surface
PageCounts == 1..MaxPages

----------------------------------------------------------------------------
(* Program constants *)

Reserve == 30
FallbackSlides == 9
FixedFallbackSlides == 9
MinBodyText == 100
RichBodyText == 200
NuclearProbeLimit == 20
RobustProbeLimit == 10
PatternUpper == 50

Min(a, b) == IF a <= b THEN a ELSE b

----------------------------------------------------------------------------
(* Texts returned by the surface: sequences of one-character strings.      *)

Chars == {"0", "1", "2", "/", "-", " ", "x"}
Digits == {"0", "1", "2"}

\* evaluate() returning null: no counter element on the page
NoneText == << "null" >>

AllTexts == UNION { [1..n -> Chars] : n \in 0..MaxTextLen }

\* counter.textContent.trim(): no leading or trailing blank
CounterTexts ==
    { t \in AllTexts : Len(t) > 0 => (t[1] # " " /\ t[Len(t)] # " ") }
        \cup {NoneText}

\* Python truthiness of slide_text: None and '' are false
Truthy(t) == t # NoneText /\ t # << >>

SlashCount(t) == Cardinality({ k \in 1..Len(t) : t[k] = "/" })

\* Variant of SecondPart: parts[0], the current slide, is taken
SecondPart_First(t) ==
    LET k == CHOOSE j \in 1..Len(t) : t[j] = "/"
    IN  SubSeq(t, 1, k - 1)

\* slide_text.split('/')[1] when the split has exactly two parts
SecondPart(t) ==
    LET k == CHOOSE j \in 1..Len(t) : t[j] = "/"
    IN  SubSeq(t, k + 1, Len(t))

RECURSIVE Strip(_)
\* str.strip() over the blank of the alphabet
Strip(t) ==
    IF t = << >> THEN t
    ELSE IF t[1] = " " THEN Strip(Tail(t))
    ELSE IF t[Len(t)] = " " THEN Strip(SubSeq(t, 1, Len(t) - 1))
    ELSE t

DigitValue(c) == IF c = "0" THEN 0 ELSE IF c = "1" THEN 1 ELSE 2

RECURSIVE DecimalValue(_)
DecimalValue(t) ==
    IF t = << >> THEN 0
    ELSE 10 * DecimalValue(SubSeq(t, 1, Len(t) - 1)) + DigitValue(t[Len(t)])

AllDigits(t) == t # << >> /\ \A k \in 1..Len(t) : t[k] \in Digits

\* int(s) succeeds: blanks around, an optional sign, then digits only
IsInt(t) ==
    LET u == Strip(t)
    IN  IF u # << >> /\ u[1] = "-" THEN AllDigits(Tail(u)) ELSE AllDigits(u)

\* int(s), for IsInt(s)
IntValue(t) ==
    LET u == Strip(t)
    IN  IF u[1] = "-" THEN 0 - DecimalValue(Tail(u)) ELSE DecimalValue(u)

\* The counter-text test: '/' in the text, two parts, the second an int
CounterParses(t) ==
    /\ Truthy(t)
    /\ SlashCount(t) = 1
    /\ IsInt(SecondPart(t))

CounterTotal(t) == IntValue(SecondPart(t))

\* Variant of Clamp: the total is returned as parsed
Clamp_None(total, budget) == total

\* min(total, self.max_slides)
Clamp(total, budget) == Min(total, budget)

\* (current, total) pairs found by re.findall, in the order the code visits them
PairValues == {0, 1, 2, 5, PatternUpper, PatternUpper + 1}
MatchLists ==
    UNION { [1..n -> PairValues \X PairValues] : n \in 0..MaxMatches }

\* Variant of PairAccepted: the upper sanity bound is not tested
PairAccepted_NoUpper(m) == 1 <= m[1] /\ m[1] <= m[2]

\* 1 <= current <= total <= 50
PairAccepted(m) == 1 <= m[1] /\ m[1] <= m[2] /\ m[2] <= PatternUpper

HasAccepted(ms) == \E k \in 1..Len(ms) : PairAccepted(ms[k])

\* the pair at which the scan of the matches returns
AcceptedMatch(ms) ==
    LET k == CHOOSE j \in 1..Len(ms) :
                 /\ PairAccepted(ms[j])
                 /\ \A h \in 1..(j - 1) : ~PairAccepted(ms[h])
    IN  ms[k]

\* total of the first accepted pair
FirstAccepted(ms) == AcceptedMatch(ms)[2]

----------------------------------------------------------------------------
(* The surface (browser page) *)

\* keyboard.press('Home')
AfterHome(p) == 1

\* keyboard.press('ArrowRight'): no effect on the last page
AfterArrowRight(p, n) == IF p < n THEN p + 1 ELSE p

\* waitForFunction / waitForSelector with a timeout of t seconds:
\* the wait ends at once when it succeeds and after t seconds when it times out
WaitTimes(t) == {0, t}

----------------------------------------------------------------------------
(* Results returned to the caller *)

NoResult == [success |-> FALSE, error |-> "none", slides |-> 0, data |-> << >>]

Failure(msg) == [success |-> FALSE, error |-> msg, slides |-> 0, data |-> << >>]

\* canvas.Canvas(output_path, ...): the pages emitted so far and the
\* images drawn on the page being composed
EmptyCanvas == [pages |-> << >>, current |-> << >>]

\* c.drawImage(temp_img_path, 0, 0, ...)
DrawImage(c, f) == [c EXCEPT !.current = Append(@, f)]

\* Variant of ShowPage: the page break is not emitted
ShowPage_Missing(c) == c

\* c.showPage(): the page being composed is emitted, a new one begun
ShowPage(c) == [pages |-> Append(c.pages, c.current), current |-> << >>]

\* c.save(): a page that has content is emitted first
Save(c) == IF c.current # << >> THEN ShowPage(c).pages ELSE c.pages

RECURSIVE DrawFrames(_, _, _)
\* for i, screenshot_data in enumerate(screenshots): drawImage, and
\* showPage except after the last
DrawFrames(c, frames, i) ==
    IF i > Len(frames) THEN c
    ELSE LET d == DrawImage(c, frames[i])
         IN  DrawFrames(IF i < Len(frames) THEN ShowPage(d) ELSE d, frames, i + 1)

\* create_pdf_from_screenshots: the pages of the document written
CreatePdf(frames) == Save(DrawFrames(EmptyCanvas, frames, 1))

\* the success dict: 'slides': len(screenshots), 'data': the PDF pages
Success(frames) ==
    [success |-> TRUE, error |-> "", slides |-> Len(frames),
     data |-> CreatePdf(frames)]

\* Variant of Frame: the frame is tagged with a zero-based index
Frame_ZeroBased(n, p) == [slide |-> n - 1, page |-> p]

Frame(n, p) == [slide |-> n, page |-> p]

\* no answers fixed in advance, and no compared run made
NoSurface == [fixed |-> FALSE]
NoRun == [done |-> FALSE, ops |-> << >>, success |-> FALSE, error |-> "",
          slides |-> 0]
NoRuns == [simple |-> NoRun, sync |-> NoRun]

\* a page without any element of the three families
NoCounts == [slides |-> 0, dots |-> 0, pagination |-> 0]

\* Two downloader objects living in one process
SessionIds == {"A", "B"}

\* the signals for which __init__ installs a handler
Signals == {"SIGTERM", "SIGINT"}

\* an object that has not been constructed yet
NoDownloader ==
    [pc |-> "new", shutdown_requested |-> FALSE, browser |-> "none",
     \* screenshots: the slide numbers of the screenshots appended
     screenshots |-> << >>, total_slides |-> 0, slide_num |-> 0,
     elapsed |-> 0, slide_count |-> 0, probe_i |-> 0]

\* the signal table of a process that has installed no handler
DefaultHandlers == [sig \in Signals |-> "default"]

\* the Next button of the player is disabled on the last page
NextDisabled(p, n) == p = n

\* a document before anything is rendered
BlankDom == [loading |-> 0, inner |-> 0, pad |-> 0, images |-> << >>, slides |-> 0]

----------------------------------------------------------------------------
(* Initial state: a freshly constructed downloader, run not yet started *)

Init ==
    /\ max_slides \in BudgetValues
    /\ timeout \in TimeoutValues
    /\ numPages \in PageCounts
    /\ browser = "none"
    /\ shutdown_requested = FALSE
    /\ requested_at = "none"
    /\ pc = "launch"
    /\ elapsed = 0
    /\ total_slides = 0
    /\ method = "none"
    /\ slide_count = 0
    /\ probe_i = 0
    /\ slide_num = 0
    /\ screenshots = << >>
    /\ result = NoResult
    /\ curPage = 1
    /\ last_capture = [slide |-> 0, outcome |-> "none"]
    /\ failed = {}
    /\ stopped = "none"
    /\ observed = "none"
    /\ keys = 0
    /\ shots = 0
    /\ captures = 0
    /\ advances = 0
    /\ pdf_calls = 0
    /\ slide_text = NoneText
    /\ match = << >>
    /\ faithful = TRUE
    /\ dom = BlankDom
    /\ verdict = "none"
    /\ counts = NoCounts
    /\ attempt = 0
    /\ page_url = "about:blank"
    /\ surface = NoSurface
    /\ runs = NoRuns
    /\ downloaders = [s \in SessionIds |-> NoDownloader]
    /\ handlers = DefaultHandlers

signal_vars == << shutdown_requested, requested_at >>

\* Variables no downloader changes after construction
Fixed == UNCHANGED << max_slides, timeout, numPages >>

\* Variables of the detection and capture phases, untouched by the other steps
DetectIdle ==
    UNCHANGED << total_slides, method, slide_count, probe_i, slide_text,
                 match, faithful >>

\* The document is not changed and the readiness predicate not evaluated
PageIdle ==
    UNCHANGED << dom, verdict, counts, attempt, page_url, surface, runs,
                    downloaders, handlers >>
CaptureIdle ==
    UNCHANGED << slide_num, screenshots, last_capture, failed, stopped,
                 shots, captures, advances, pdf_calls >>

\* return <msg> from inside the try: the finally clause runs next
ReturnFailure(msg) == result' = Failure(msg) /\ pc' = "finally"

----------------------------------------------------------------------------
(* NuclearPitchDownloader *)

\* Variant of BudgetExceeded: the budget is tested for the last slide only
BudgetExceeded_LastOnly(e, t) == slide_num = total_slides /\ e > t - Reserve

\* Variant of BudgetExceeded: the whole timeout is spent, no reserve
BudgetExceeded_NoReserve(e, t) == e > t

\* The budget check of the capture loop: elapsed > self.timeout - 30
BudgetExceeded(e, t) == e > t - Reserve

\* Variant of AppendFrame: screenshots.insert(0, screenshot)
AppendFrame_Prepend(frames, f) == << f >> \o frames

\* Variant of AppendFrame: only the first screenshot is kept
AppendFrame_KeepFirst(frames, f) ==
    IF frames = << >> THEN Append(frames, f) ELSE frames

\* screenshots.append(screenshot)
AppendFrame(frames, f) == Append(frames, f)

\* Variant of NoFrames: the empty check is missing
NoFrames_Never(frames) == FALSE

\* if not screenshots
NoFrames(frames) == frames = << >>

\* Variant of NextSlideNum: the loop variable does not move
NextSlideNum_Stuck(n) == n

\* range(1, total_slides + 1): the slide number after n
NextSlideNum(n) == n + 1

\* launch_browser, and the 'Browser launch failed' return
Nuclear_launch_browser ==
    /\ pc = "launch"
    /\ \/ /\ browser' = "open"
          /\ pc' = "navigate"
          /\ UNCHANGED result
       \/ \* launch() raises: self.browser stays None
          /\ browser' = "none"
          /\ ReturnFailure("Browser launch failed")
       \/ \* newPage() or setUserAgent() raises: the browser is already set
          /\ browser' = "open"
          /\ ReturnFailure("Browser launch failed")
    /\ Fixed /\ PageIdle /\ DetectIdle /\ CaptureIdle
    /\ UNCHANGED << signal_vars, elapsed, curPage, observed, keys >>

\* Variant of NavigationFailed: the failure is recorded but the return is missing
NavigationFailed_NoReturn ==
    result' = Failure("Navigation failed") /\ pc' = "detect_counter"

\* if not await self.navigate_to_presentation(url): return {... 'Navigation failed'}
NavigationFailed == ReturnFailure("Navigation failed")

\* navigate_to_presentation, and the 'Navigation failed' return
Nuclear_navigate_to_presentation ==
    /\ pc = "navigate"
    /\ \/ \* page.goto raises or times out (60 s)
          /\ \E d \in WaitTimes(60) : elapsed' = elapsed + d
          /\ NavigationFailed
          /\ UNCHANGED curPage
       \/ \* goto succeeds; two bounded waits, then sleep(5)
          /\ \E d1 \in WaitTimes(30), d2 \in WaitTimes(20) :
                elapsed' = elapsed + d1 + d2 + 5
          /\ curPage' = 1
          /\ pc' = "detect_counter"
          /\ UNCHANGED result
    /\ Fixed /\ PageIdle /\ DetectIdle /\ CaptureIdle
    /\ UNCHANGED << browser, signal_vars, observed, keys >>

\* positions of the run inside detect_slide_count
DetectPcs ==
    {"detect_counter", "counter_parse", "detect_pattern", "detect_probe",
     "probe", "probe_press", "probe_exit"}

\* return <v> from detect_slide_count
DetectReturn(v, how) ==
    /\ total_slides' = v
    /\ method' = how
    /\ pc' = "home"

\* detect_slide_count, method 1: the slide counter element
Nuclear_detect_counter ==
    /\ pc = "detect_counter"
    /\ \/ \* waitForSelector times out (15 s) or evaluate raises
          /\ \E d \in WaitTimes(15) : elapsed' = elapsed + d
          /\ pc' = "detect_pattern"
          /\ UNCHANGED << total_slides, method, slide_text, match, faithful >>
       \/ \* slide_text = await self.page.evaluate(...)
          \E text \in CounterTexts :
             /\ elapsed' = elapsed
             /\ slide_text' = text
             /\ pc' = "counter_parse"
             /\ UNCHANGED << total_slides, method, match, faithful >>
    /\ Fixed /\ PageIdle /\ CaptureIdle
    /\ UNCHANGED << browser, signal_vars, slide_count, probe_i, result,
                    curPage, observed, keys >>

\* detect_slide_count, method 1: the counter text is split and parsed
Nuclear_counter_parse ==
    /\ pc = "counter_parse"
    /\ IF CounterParses(slide_text)
       THEN /\ DetectReturn(Clamp(CounterTotal(slide_text), max_slides),
                            "counter")
            /\ faithful' = (faithful /\ CounterTotal(slide_text) = numPages)
       ELSE /\ pc' = "detect_pattern"
            /\ UNCHANGED << total_slides, method, faithful >>
    /\ slide_text' = NoneText
    /\ match' = match
    /\ Fixed /\ PageIdle /\ CaptureIdle
    /\ UNCHANGED << browser, signal_vars, elapsed, slide_count, probe_i,
                    result, curPage, observed, keys >>

\* detect_slide_count, method 2: slide patterns in the page text
Nuclear_detect_pattern ==
    /\ pc = "detect_pattern"
    /\ \/ \* evaluate raises
          /\ pc' = "detect_probe"
          /\ UNCHANGED << total_slides, method, faithful, match >>
       \/ \E matches \in MatchLists :
             IF HasAccepted(matches)
             THEN /\ DetectReturn(Clamp(FirstAccepted(matches), max_slides),
                                  "pattern")
                  /\ faithful' = (faithful /\ FirstAccepted(matches) = numPages)
                  /\ match' = AcceptedMatch(matches)
             ELSE /\ pc' = "detect_probe"
                  /\ UNCHANGED << total_slides, method, faithful, match >>
    /\ slide_text' = slide_text
    /\ Fixed /\ PageIdle /\ CaptureIdle
    /\ UNCHANGED << browser, signal_vars, elapsed, slide_count, probe_i,
                    result, curPage, observed, keys >>

\* Variant of MaxTest: the probe is limited by the slide budget alone
MaxTest_BudgetOnly(budget) == budget

\* max_test = min(20, self.max_slides)
MaxTest(budget) == Min(NuclearProbeLimit, budget)

\* Variant of ProbeHomeRaises: the exception leaves detect_slide_count
ProbeHomeRaises_Propagates ==
    ReturnFailure("exception") /\ UNCHANGED << total_slides, method >>

\* keyboard.press('Home') raises inside method 3: the except of lines
\* 208-209 logs it and method 4 returns 9
ProbeHomeRaises ==
    DetectReturn(FallbackSlides, "fallback") /\ UNCHANGED result

\* detect_slide_count, method 3: Home, then the probe loop is set up
Nuclear_detect_probe ==
    /\ pc = "detect_probe"
    /\ \/ /\ ProbeHomeRaises
          /\ UNCHANGED << elapsed, slide_count, probe_i, curPage, keys >>
       \/ /\ keys' = keys + 1
          /\ curPage' = AfterHome(curPage)
          /\ elapsed' = elapsed + 3
          /\ slide_count' = 1
          /\ probe_i' = 0
          /\ pc' = IF MaxTest(max_slides) > 0
                   THEN "probe" ELSE "probe_exit"
          /\ UNCHANGED << total_slides, method, result >>
    /\ Fixed /\ PageIdle /\ CaptureIdle
    /\ UNCHANGED << slide_text, match, faithful >>
    /\ UNCHANGED << browser, signal_vars, observed >>

\* one iteration of: for i in range(max_test)
Nuclear_probe_step ==
    /\ pc = "probe"
    /\ probe_i < MaxTest(max_slides)
    /\ \/ \* keyboard.press('ArrowRight') raises: break
          /\ pc' = "probe_exit"
          /\ faithful' = FALSE
          /\ UNCHANGED << elapsed, total_slides, method, slide_count, probe_i,
                          curPage, keys >>
       \/ /\ keys' = keys + 1
          /\ curPage' = AfterArrowRight(curPage, numPages)
          /\ elapsed' = elapsed + 2
          /\ \/ \* evaluate raises: break
                /\ pc' = "probe_exit"
                /\ faithful' = FALSE
                /\ UNCHANGED << total_slides, method, slide_count, probe_i >>
             \/ \E is_disabled \in BOOLEAN :
                /\ faithful' = (faithful /\ (is_disabled <=> NextDisabled(curPage', numPages)))
                /\ IF is_disabled
                   THEN /\ DetectReturn(slide_count + 1, "probe_disabled")
                        /\ UNCHANGED << slide_count, probe_i >>
                   ELSE /\ slide_count' = slide_count + 1
                        /\ probe_i' = probe_i + 1
                        /\ pc' = IF probe_i + 1 < MaxTest(max_slides)
                                 THEN "probe" ELSE "probe_exit"
                        /\ UNCHANGED << total_slides, method >>
    /\ slide_text' = slide_text
    /\ match' = match
    /\ Fixed /\ PageIdle /\ CaptureIdle
    /\ UNCHANGED << browser, signal_vars, result, observed >>

\* after the probe loop: return min(slide_count, self.max_slides)
Nuclear_probe_exit ==
    /\ pc = "probe_exit"
    /\ DetectReturn(Clamp(slide_count, max_slides), "probe_exhausted")
    /\ Fixed /\ PageIdle /\ CaptureIdle
    /\ UNCHANGED << slide_text, match, faithful >>
    /\ UNCHANGED << browser, signal_vars, elapsed, slide_count, probe_i,
                    result, curPage, observed, keys >>

\* Step 4: Home, sleep(5), bounded wait for the first slide
Nuclear_first_slide ==
    /\ pc = "home"
    /\ \/ \* keyboard.press('Home') raises: the outer except returns str(e)
          /\ ReturnFailure("exception")
          /\ UNCHANGED << elapsed, curPage, keys, slide_num >>
       \/ /\ keys' = keys + 1
          /\ curPage' = AfterHome(curPage)
          /\ \E d \in WaitTimes(15) : elapsed' = elapsed + 5 + d
          /\ slide_num' = 1
          /\ pc' = "loop"
          /\ UNCHANGED result
    /\ match' = << >>
    /\ Fixed /\ PageIdle
    /\ UNCHANGED << total_slides, method, slide_count, probe_i, slide_text,
                    faithful >>
    /\ UNCHANGED << browser, signal_vars, screenshots, last_capture,
                    failed, stopped, observed, shots, captures, advances,
                    pdf_calls >>

\* Variant of LoopBody: the advance is issued before the capture
LoopBody_AdvanceFirst == "advance"

\* the loop body starts with: screenshot = await self.capture_slide(slide_num)
LoopBody == "capture"

\* top of a capture-loop iteration: end of range, then the budget check
Nuclear_loop_top ==
    /\ pc = "loop"
    /\ IF slide_num > total_slides
       THEN /\ pc' = "finalize"
            /\ stopped' = "range"
       ELSE IF BudgetExceeded(elapsed, timeout)
       THEN /\ pc' = "finalize"
            /\ stopped' = "budget"
       ELSE /\ pc' = LoopBody
            /\ UNCHANGED stopped
    /\ Fixed /\ PageIdle /\ DetectIdle
    /\ UNCHANGED << browser, signal_vars, elapsed, slide_num,
                    screenshots, result, curPage, last_capture, failed,
                    observed, keys, shots, captures, advances, pdf_calls >>

\* Variant of AfterCapture: a failed capture ends the loop
AfterCapture_BreakOnNone(ok) == IF ok THEN "advance" ELSE "finalize"

\* after capture_slide returned (a screenshot: ok, or None) the iteration
\* goes on with: if slide_num < total_slides: navigate_to_next_slide()
AfterCapture(ok) == "advance"

\* capture_slide(slide_num) and: if screenshot: screenshots.append(screenshot)
Nuclear_capture_slide ==
    /\ pc = "capture"
    /\ captures' = captures + 1
    /\ \/ \* the readiness wait raises, at once or as a TimeoutError after
          \* its 15 s: return None
          /\ \E d \in WaitTimes(15) : elapsed' = elapsed + d
          /\ last_capture' = [slide |-> slide_num, outcome |-> "not_ready"]
          /\ failed' = failed \cup {slide_num}
          /\ pc' = AfterCapture(FALSE)
          /\ UNCHANGED << screenshots, shots >>
       \/ \* ready; sleep(3); page.screenshot raises: return None
          /\ elapsed' = elapsed + 3
          /\ shots' = shots + 1
          /\ last_capture' = [slide |-> slide_num, outcome |-> "shot_failed"]
          /\ failed' = failed \cup {slide_num}
          /\ pc' = AfterCapture(FALSE)
          /\ UNCHANGED screenshots
       \/ \* ready; sleep(3); the screenshot is returned and appended
          /\ elapsed' = elapsed + 3
          /\ shots' = shots + 1
          /\ last_capture' = [slide |-> slide_num, outcome |-> "captured"]
          /\ screenshots' = AppendFrame(screenshots, Frame(slide_num, curPage))
          /\ pc' = AfterCapture(TRUE)
          /\ UNCHANGED failed
    /\ Fixed /\ PageIdle /\ DetectIdle
    /\ UNCHANGED << browser, signal_vars, slide_num, result, curPage,
                    stopped, observed, keys, advances, pdf_calls >>

\* Variant of AdvanceDue: the advance is issued after the last slide too
AdvanceDue_Always(n, total) == TRUE

\* if slide_num < total_slides: the advance is skipped after the last slide
AdvanceDue(n, total) == n < total

\* if slide_num < total_slides: navigate_to_next_slide(); then the next slide_num
Nuclear_advance ==
    /\ pc = "advance"
    /\ IF AdvanceDue(slide_num, total_slides)
       THEN \/ \* keyboard.press('ArrowRight') raises: returns False, ignored
               /\ advances' = advances + 1
               /\ UNCHANGED << elapsed, curPage, keys >>
            \/ /\ keys' = keys + 1
               /\ advances' = advances + 1
               /\ curPage' = AfterArrowRight(curPage, numPages)
               /\ \E d \in WaitTimes(10) : elapsed' = elapsed + 3 + d
       ELSE UNCHANGED << elapsed, curPage, keys, advances >>
    /\ slide_num' = NextSlideNum(slide_num)
    /\ pc' = "loop"
    /\ Fixed /\ PageIdle /\ DetectIdle
    /\ UNCHANGED << browser, signal_vars, screenshots, result,
                    last_capture, failed, stopped, observed, shots, captures,
                    pdf_calls >>

\* after the loop: the empty check, create_pdf_from_screenshots, the result
Nuclear_finalize ==
    /\ pc = "finalize"
    /\ IF NoFrames(screenshots)
       THEN /\ ReturnFailure("No slides captured")
            /\ UNCHANGED pdf_calls
       ELSE /\ pdf_calls' = pdf_calls + 1
            /\ pc' = "finally"
            /\ \/ result' = Success(screenshots)
               \/ \* PDF creation or the file copy raises: str(e) is returned
                  result' = Failure("exception")
    /\ Fixed /\ PageIdle /\ DetectIdle
    /\ UNCHANGED << browser, signal_vars, elapsed, slide_num,
                    screenshots, curPage, last_capture, failed, stopped,
                    observed, keys, shots, captures, advances >>

\* if self.browser: try: await self.browser.close() except: pass
\* (the states the browser can be left in: close() may raise, which is ignored)
CloseBrowser(b) == IF b = "open" THEN {"closed", "close_failed"} ELSE {b}

\* finally: close the browser if one was launched; the call returns
Nuclear_finally ==
    /\ pc = "finally"
    /\ browser' \in CloseBrowser(browser)
    /\ pc' = "done"
    /\ Fixed /\ PageIdle /\ DetectIdle /\ CaptureIdle
    /\ UNCHANGED << signal_vars, elapsed, result, curPage, observed, keys >>

Next ==
    \/ Nuclear_launch_browser
    \/ Nuclear_navigate_to_presentation
    \/ Nuclear_detect_counter
    \/ Nuclear_counter_parse
    \/ Nuclear_detect_pattern
    \/ Nuclear_detect_probe
    \/ Nuclear_probe_step
    \/ Nuclear_probe_exit
    \/ Nuclear_first_slide
    \/ Nuclear_loop_top
    \/ Nuclear_capture_slide
    \/ Nuclear_advance
    \/ Nuclear_finalize
    \/ Nuclear_finally

Spec == Init /\ [][Next]_vars

\* Every await of the run returns or raises: some step of the run is
\* eventually taken while one is possible
SpecLive == Spec /\ WF_vars(Next)

----------------------------------------------------------------------------
(* RobustPitchDownloader *)

\* _signal_handler: SIGTERM or SIGINT delivered to the process during the run
Robust_signal_handler ==
    /\ pc # "done"
    /\ ~shutdown_requested
    /\ shutdown_requested' = TRUE
    /\ requested_at' = pc
    /\ Fixed /\ PageIdle /\ DetectIdle /\ CaptureIdle
    /\ UNCHANGED << browser, pc, elapsed, result, curPage, observed, keys >>

\* launch_browser, and the 'Browser launch failed' return
Robust_launch_browser ==
    /\ pc = "launch"
    /\ \/ /\ browser' = "open"
          /\ pc' = "navigate"
          /\ UNCHANGED result
       \/ /\ browser' = "none"
          /\ ReturnFailure("Browser launch failed")
       \/ /\ browser' = "open"
          /\ ReturnFailure("Browser launch failed")
    /\ Fixed /\ PageIdle /\ DetectIdle /\ CaptureIdle
    /\ UNCHANGED << signal_vars, elapsed, curPage, observed, keys >>

\* navigate_to_presentation, and the 'Navigation failed' return
Robust_navigate_to_presentation ==
    /\ pc = "navigate"
    /\ \/ \* page.goto raises or times out (30 s)
          /\ \E d \in WaitTimes(30) : elapsed' = elapsed + d
          /\ ReturnFailure("Navigation failed")
          /\ UNCHANGED curPage
       \/ \* sleep(5), and 5 more when the page text is shorter than 100
          /\ \E extra \in {0, 5} : elapsed' = elapsed + 5 + extra
          /\ curPage' = 1
          /\ pc' = "detect_counter"
          /\ UNCHANGED result
    /\ Fixed /\ PageIdle /\ DetectIdle /\ CaptureIdle
    /\ UNCHANGED << browser, signal_vars, observed, keys >>

\* detect_slide_count_robust, method 1: sleep(3), the slide counter element
Robust_detect_counter ==
    /\ pc = "detect_counter"
    /\ elapsed' = elapsed + 3
    /\ \/ \* evaluate raises
          /\ pc' = "detect_pattern"
          /\ UNCHANGED << total_slides, method >>
       \/ \E text \in CounterTexts :
             IF CounterParses(text)
             THEN DetectReturn(Clamp(CounterTotal(text), max_slides),
                               "counter")
             ELSE /\ pc' = "detect_pattern"
                  /\ UNCHANGED << total_slides, method >>
    /\ Fixed /\ PageIdle /\ CaptureIdle
    /\ UNCHANGED << slide_text, match, faithful >>
    /\ UNCHANGED << browser, signal_vars, slide_count, probe_i, result,
                    curPage, observed, keys >>

\* detect_slide_count_robust, method 2: slide patterns in the page text
Robust_detect_pattern ==
    /\ pc = "detect_pattern"
    /\ \/ /\ pc' = "detect_probe"
          /\ UNCHANGED << total_slides, method >>
       \/ \E matches \in MatchLists :
             IF HasAccepted(matches)
             THEN DetectReturn(Clamp(FirstAccepted(matches), max_slides),
                               "pattern")
             ELSE /\ pc' = "detect_probe"
                  /\ UNCHANGED << total_slides, method >>
    /\ Fixed /\ PageIdle /\ CaptureIdle
    /\ UNCHANGED << slide_text, match, faithful >>
    /\ UNCHANGED << browser, signal_vars, elapsed, slide_count, probe_i,
                    result, curPage, observed, keys >>

\* detect_slide_count_robust, method 3: Home, then the probe loop is set up
Robust_detect_probe ==
    /\ pc = "detect_probe"
    /\ \/ \* keyboard.press('Home') raises: method 4, return 9
          /\ DetectReturn(FallbackSlides, "fallback")
          /\ UNCHANGED << elapsed, slide_count, probe_i, curPage, keys >>
       \/ /\ keys' = keys + 1
          /\ curPage' = AfterHome(curPage)
          /\ elapsed' = elapsed + 2
          /\ slide_count' = 1
          /\ probe_i' = 0
          /\ pc' = IF Min(RobustProbeLimit, max_slides) > 0
                   THEN "probe" ELSE "probe_exit"
          /\ UNCHANGED << total_slides, method >>
    /\ Fixed /\ PageIdle /\ CaptureIdle
    /\ UNCHANGED << slide_text, match, faithful >>
    /\ UNCHANGED << browser, signal_vars, result, observed >>

\* head of an iteration of: for i in range(max_test), with the shutdown
\* check: if self._shutdown_requested: break
Robust_probe_test ==
    /\ pc = "probe"
    /\ probe_i < Min(RobustProbeLimit, max_slides)
    /\ IF shutdown_requested
       THEN /\ observed' = "probe"
            /\ pc' = "probe_exit"
       ELSE /\ UNCHANGED observed
            /\ pc' = "probe_press"
    /\ Fixed /\ PageIdle /\ CaptureIdle /\ DetectIdle
    /\ UNCHANGED << browser, signal_vars, elapsed, result, curPage, keys >>

\* body of the iteration: ArrowRight, sleep(2), the Next-button evaluate
Robust_probe_step ==
    /\ pc = "probe_press"
    /\ \/ \* keyboard.press('ArrowRight') raises: method 4, return 9
          /\ DetectReturn(FallbackSlides, "fallback")
          /\ UNCHANGED << elapsed, slide_count, probe_i, curPage, keys >>
       \/ /\ keys' = keys + 1
          /\ curPage' = AfterArrowRight(curPage, numPages)
          /\ elapsed' = elapsed + 2
          /\ \/ \* evaluate raises: break
                /\ pc' = "probe_exit"
                /\ UNCHANGED << total_slides, method, slide_count, probe_i >>
             \/ \E is_disabled \in BOOLEAN :
                   IF is_disabled
                   THEN /\ DetectReturn(slide_count + 1, "probe_disabled")
                        /\ UNCHANGED << slide_count, probe_i >>
                   ELSE /\ slide_count' = slide_count + 1
                        /\ probe_i' = probe_i + 1
                        /\ pc' = IF probe_i + 1 <
                                    Min(RobustProbeLimit, max_slides)
                                 THEN "probe" ELSE "probe_exit"
                        /\ UNCHANGED << total_slides, method >>
    /\ Fixed /\ PageIdle /\ CaptureIdle
    /\ UNCHANGED << slide_text, match, faithful >>
    /\ UNCHANGED << browser, signal_vars, result, observed >>

\* after the probe loop: return min(slide_count, self.max_slides)
Robust_probe_exit ==
    /\ pc = "probe_exit"
    /\ DetectReturn(Clamp(slide_count, max_slides), "probe_exhausted")
    /\ Fixed /\ PageIdle /\ CaptureIdle
    /\ UNCHANGED << slide_text, match, faithful >>
    /\ UNCHANGED << browser, signal_vars, elapsed, slide_count, probe_i,
                    result, curPage, observed, keys >>

\* Step 4: Home, sleep(3)
Robust_first_slide ==
    /\ pc = "home"
    /\ \/ \* keyboard.press('Home') raises: the outer except returns str(e)
          /\ ReturnFailure("exception")
          /\ UNCHANGED << elapsed, curPage, keys, slide_num >>
       \/ /\ keys' = keys + 1
          /\ curPage' = AfterHome(curPage)
          /\ elapsed' = elapsed + 3
          /\ slide_num' = 1
          /\ pc' = "loop"
          /\ UNCHANGED result
    /\ Fixed /\ PageIdle /\ DetectIdle
    /\ UNCHANGED << browser, signal_vars, screenshots, last_capture,
                    failed, stopped, observed, shots, captures, advances,
                    pdf_calls >>

\* top of a capture-loop iteration: end of range, shutdown check, budget check
Robust_loop_top ==
    /\ pc = "loop"
    /\ IF slide_num > total_slides
       THEN /\ pc' = "finalize"
            /\ stopped' = "range"
            /\ UNCHANGED observed
       ELSE IF shutdown_requested
       THEN /\ pc' = "finalize"
            /\ stopped' = "shutdown"
            /\ observed' = "capture"
       ELSE IF BudgetExceeded(elapsed, timeout)
       THEN /\ pc' = "finalize"
            /\ stopped' = "budget"
            /\ UNCHANGED observed
       ELSE /\ pc' = "capture"
            /\ UNCHANGED << stopped, observed >>
    /\ Fixed /\ PageIdle /\ DetectIdle
    /\ UNCHANGED << browser, signal_vars, elapsed, slide_num,
                    screenshots, result, curPage, last_capture, failed,
                    keys, shots, captures, advances, pdf_calls >>

\* capture_slide_robust(slide_num): sleep(2), screenshot; append if not None
Robust_capture_slide ==
    /\ pc = "capture"
    /\ captures' = captures + 1
    /\ shots' = shots + 1
    /\ elapsed' = elapsed + 2
    /\ \/ \* page.screenshot raises: return None
          /\ last_capture' = [slide |-> slide_num, outcome |-> "shot_failed"]
          /\ failed' = failed \cup {slide_num}
          /\ UNCHANGED screenshots
       \/ /\ last_capture' = [slide |-> slide_num, outcome |-> "captured"]
          /\ screenshots' = AppendFrame(screenshots, Frame(slide_num, curPage))
          /\ UNCHANGED failed
    /\ pc' = "advance"
    /\ Fixed /\ PageIdle /\ DetectIdle
    /\ UNCHANGED << browser, signal_vars, slide_num, result, curPage,
                    stopped, observed, keys, advances, pdf_calls >>

\* if slide_num < total_slides: navigate_to_next_slide_robust()
Robust_advance ==
    /\ pc = "advance"
    /\ IF slide_num < total_slides
       THEN \/ \* keyboard.press('ArrowRight') raises: returns False, ignored
               /\ advances' = advances + 1
               /\ UNCHANGED << elapsed, curPage, keys >>
            \/ /\ keys' = keys + 1
               /\ advances' = advances + 1
               /\ curPage' = AfterArrowRight(curPage, numPages)
               /\ elapsed' = elapsed + 2
       ELSE UNCHANGED << elapsed, curPage, keys, advances >>
    /\ slide_num' = NextSlideNum(slide_num)
    /\ pc' = "loop"
    /\ Fixed /\ PageIdle /\ DetectIdle
    /\ UNCHANGED << browser, signal_vars, screenshots, result,
                    last_capture, failed, stopped, observed, shots, captures,
                    pdf_calls >>

\* after the loop: the empty check, create_pdf_from_screenshots, the result
Robust_finalize ==
    /\ pc = "finalize"
    /\ IF NoFrames(screenshots)
       THEN /\ ReturnFailure("No slides captured")
            /\ UNCHANGED pdf_calls
       ELSE /\ pdf_calls' = pdf_calls + 1
            /\ pc' = "finally"
            /\ \/ result' = Success(screenshots)
               \/ result' = Failure("exception")
    /\ Fixed /\ PageIdle /\ DetectIdle
    /\ UNCHANGED << browser, signal_vars, elapsed, slide_num,
                    screenshots, curPage, last_capture, failed, stopped,
                    observed, keys, shots, captures, advances >>

\* finally: close_browser(); the call returns
Robust_finally ==
    /\ pc = "finally"
    /\ browser' \in CloseBrowser(browser)
    /\ pc' = "done"
    /\ Fixed /\ PageIdle /\ DetectIdle /\ CaptureIdle
    /\ UNCHANGED << signal_vars, elapsed, result, curPage, observed, keys >>

NextRobust ==
    \/ Robust_signal_handler
    \/ Robust_launch_browser
    \/ Robust_navigate_to_presentation
    \/ Robust_detect_counter
    \/ Robust_detect_pattern
    \/ Robust_detect_probe
    \/ Robust_probe_test
    \/ Robust_probe_step
    \/ Robust_probe_exit
    \/ Robust_first_slide
    \/ Robust_loop_top
    \/ Robust_capture_slide
    \/ Robust_advance
    \/ Robust_finalize
    \/ Robust_finally

SpecRobust == Init /\ [][NextRobust]_vars

----------------------------------------------------------------------------
(* FixedPitchDownloader *)

\* State the FixedPitchDownloader does not have or use: no shutdown flag, no
\* clock (self.timeout is stored but never read), no navigation probe
NotInFixed ==
    UNCHANGED << signal_vars, observed, elapsed, slide_count, probe_i,
                 slide_text, match, faithful >>

\* the call raised instead of returning a dict
Escaped == [success |-> FALSE, error |-> "raised", slides |-> 0, data |-> << >>]

\* launch_browser, and the 'Browser launch failed' return
Fixed_launch_browser ==
    /\ pc = "launch"
    /\ \/ /\ browser' = "open"
          /\ pc' = "navigate"
          /\ UNCHANGED result
       \/ \* launch() raises: self.browser stays None
          /\ browser' = "none"
          /\ ReturnFailure("Browser launch failed")
       \/ \* newPage() or setUserAgent() raises: the browser is already set
          /\ browser' = "open"
          /\ ReturnFailure("Browser launch failed")
    /\ Fixed /\ PageIdle /\ NotInFixed /\ CaptureIdle
    /\ UNCHANGED << total_slides, method, curPage, keys >>

\* navigate_to_presentation, and the 'Navigation failed' return
Fixed_navigate_to_presentation ==
    /\ pc = "navigate"
    /\ \/ \* page.goto raises or times out
          /\ ReturnFailure("Navigation failed")
          /\ UNCHANGED curPage
       \/ \* goto succeeds; three bounded waits, then sleep(5)
          /\ curPage' = 1
          /\ pc' = "detect_counter"
          /\ UNCHANGED result
    /\ Fixed /\ PageIdle /\ NotInFixed /\ CaptureIdle
    /\ UNCHANGED << browser, total_slides, method, keys >>

\* detect_slide_count, method 1: the slide counter element; return total
Fixed_detect_counter ==
    /\ pc = "detect_counter"
    /\ \/ \* waitForSelector times out (20 s) or evaluate raises
          /\ pc' = "detect_pattern"
          /\ UNCHANGED << total_slides, method >>
       \/ \E text \in CounterTexts :
             IF CounterParses(text)
             THEN DetectReturn(CounterTotal(text), "counter")
             ELSE /\ pc' = "detect_pattern"
                  /\ UNCHANGED << total_slides, method >>
    /\ Fixed /\ PageIdle /\ NotInFixed /\ CaptureIdle
    /\ UNCHANGED << browser, result, curPage, keys >>

\* detect_slide_count, method 2: slide patterns; method 3: return 9
Fixed_detect_pattern ==
    /\ pc = "detect_pattern"
    /\ \/ \* evaluate raises: default to 9
          DetectReturn(FixedFallbackSlides, "fallback")
       \/ \E matches \in MatchLists :
             IF HasAccepted(matches)
             THEN DetectReturn(FirstAccepted(matches), "pattern")
             ELSE DetectReturn(FixedFallbackSlides, "fallback")
    /\ Fixed /\ PageIdle /\ NotInFixed /\ CaptureIdle
    /\ UNCHANGED << browser, result, curPage, keys >>

\* if total_slides > self.max_slides: return {... 'Too many slides: ...'}
Fixed_too_many_slides ==
    /\ pc = "home"
    /\ total_slides > max_slides
    /\ ReturnFailure("Too many slides")
    /\ Fixed /\ PageIdle /\ NotInFixed /\ CaptureIdle
    /\ UNCHANGED << browser, total_slides, method, curPage, keys >>

\* Step 4: Home, sleep(3)
Fixed_first_slide ==
    /\ pc = "home"
    /\ ~(total_slides > max_slides)
    /\ \/ \* keyboard.press('Home') raises: the outer except returns str(e)
          /\ ReturnFailure("exception")
          /\ UNCHANGED << curPage, keys, slide_num >>
       \/ /\ keys' = keys + 1
          /\ curPage' = AfterHome(curPage)
          /\ slide_num' = 1
          /\ pc' = "loop"
          /\ UNCHANGED result
    /\ Fixed /\ PageIdle /\ NotInFixed
    /\ UNCHANGED << browser, total_slides, method, screenshots, last_capture,
                    failed, stopped, shots, captures, advances, pdf_calls >>

\* for slide_num in range(1, total_slides + 1): no budget check
Fixed_loop_top ==
    /\ pc = "loop"
    /\ IF slide_num > total_slides
       THEN /\ pc' = "finalize"
            /\ stopped' = "range"
       ELSE /\ pc' = "capture"
            /\ UNCHANGED stopped
    /\ Fixed /\ PageIdle /\ NotInFixed
    /\ UNCHANGED << browser, total_slides, method, slide_num, screenshots,
                    result, curPage, last_capture, failed, keys, shots,
                    captures, advances, pdf_calls >>

\* capture_current_slide(slide_num): wait_for_slide_ready swallows its own
\* timeout, so the screenshot is always attempted
Fixed_capture_current_slide ==
    /\ pc = "capture"
    /\ captures' = captures + 1
    /\ shots' = shots + 1
    /\ \/ \* page.screenshot raises: return None
          /\ last_capture' = [slide |-> slide_num, outcome |-> "shot_failed"]
          /\ failed' = failed \cup {slide_num}
          /\ UNCHANGED screenshots
       \/ \* the screenshot is returned and appended
          /\ last_capture' = [slide |-> slide_num, outcome |-> "captured"]
          /\ screenshots' = AppendFrame(screenshots, Frame(slide_num, curPage))
          /\ UNCHANGED failed
    /\ pc' = "advance"
    /\ Fixed /\ PageIdle /\ NotInFixed
    /\ UNCHANGED << browser, total_slides, method, slide_num, result, curPage,
                    stopped, keys, advances, pdf_calls >>

\* if slide_num < total_slides: navigate_to_next_slide(); then the next slide_num
Fixed_advance ==
    /\ pc = "advance"
    /\ IF slide_num < total_slides
       THEN \/ \* keyboard.press('ArrowRight') raises: returns False, ignored
               /\ advances' = advances + 1
               /\ UNCHANGED << curPage, keys >>
            \/ /\ keys' = keys + 1
               /\ advances' = advances + 1
               /\ curPage' = AfterArrowRight(curPage, numPages)
       ELSE UNCHANGED << curPage, keys, advances >>
    /\ slide_num' = NextSlideNum(slide_num)
    /\ pc' = "loop"
    /\ Fixed /\ PageIdle /\ NotInFixed
    /\ UNCHANGED << browser, total_slides, method, screenshots, result,
                    last_capture, failed, stopped, shots, captures,
                    pdf_calls >>

\* after the loop: the empty check, create_pdf_from_screenshots, the result
Fixed_finalize ==
    /\ pc = "finalize"
    /\ IF NoFrames(screenshots)
       THEN /\ ReturnFailure("No slides captured")
            /\ UNCHANGED pdf_calls
       ELSE /\ pdf_calls' = pdf_calls + 1
            /\ pc' = "finally"
            /\ \/ result' = Success(screenshots)
               \/ \* PDF creation or the file copy raises: str(e) is returned
                  result' = Failure("exception")
    /\ Fixed /\ PageIdle /\ NotInFixed
    /\ UNCHANGED << browser, total_slides, method, slide_num, screenshots,
                    curPage, last_capture, failed, stopped, keys, shots,
                    captures, advances >>

\* finally: if self.browser: await self.browser.close(), outside any try:
\* a close() that raises replaces the return value by the exception
Fixed_finally ==
    /\ pc = "finally"
    /\ browser' \in CloseBrowser(browser)
    /\ result' = IF browser' = "close_failed" THEN Escaped ELSE result
    /\ pc' = "done"
    /\ Fixed /\ PageIdle /\ NotInFixed /\ CaptureIdle
    /\ UNCHANGED << total_slides, method, curPage, keys >>

NextFixed ==
    \/ Fixed_launch_browser
    \/ Fixed_navigate_to_presentation
    \/ Fixed_detect_counter
    \/ Fixed_detect_pattern
    \/ Fixed_too_many_slides
    \/ Fixed_first_slide
    \/ Fixed_loop_top
    \/ Fixed_capture_current_slide
    \/ Fixed_advance
    \/ Fixed_finalize
    \/ Fixed_finally

SpecFixed == Init /\ [][NextFixed]_vars

----------------------------------------------------------------------------
(* The readiness predicate of NuclearPitchDownloader.capture_slide *)

\* loading/spinner/loader elements in the document
LoadingCounts == 0..MaxLoading

\* length of the visible (trimmed) body text
TextLengths ==
    {0, 10, MinBodyText - 1, MinBodyText, RichBodyText, RichBodyText + 1, 300}

\* blanks around the body text, removed by trim()
PadLengths == {0, 2}

\* an img element: its complete flag and its naturalWidth
ImageStates == [complete : BOOLEAN, naturalWidth : {0, 640}]

ImageLists == UNION { [1..n -> ImageStates] : n \in 0..MaxImages }

\* slide/presentation/deck elements in the document
SlideElementCounts == 0..1

DomStates ==
    { [loading |-> l, inner |-> v + w, pad |-> w, images |-> im, slides |-> e] :
        l \in LoadingCounts, v \in TextLengths, w \in PadLengths,
        im \in ImageLists, e \in SlideElementCounts }

\* document.body.innerText.trim().length
BodyTextLength(d) == d.inner - d.pad

\* no img with !img.complete || img.naturalWidth === 0
ImagesLoaded(d) ==
    \A k \in 1..Len(d.images) :
        d.images[k].complete /\ d.images[k].naturalWidth # 0

\* Variant of ReadinessPredicate: the body-text length test is missing
ReadinessPredicate_NoTextTest(d) ==
    IF d.loading > 0 THEN FALSE
    ELSE IF ~ImagesLoaded(d) THEN FALSE
    ELSE d.slides > 0 \/ BodyTextLength(d) > RichBodyText

\* the function polled by waitForFunction in capture_slide
ReadinessPredicate(d) ==
    IF d.loading > 0 THEN FALSE
    ELSE IF BodyTextLength(d) < MinBodyText THEN FALSE
    ELSE IF ~ImagesLoaded(d) THEN FALSE
    ELSE d.slides > 0 \/ BodyTextLength(d) > RichBodyText

\* capture_slide(1) has been called on some document
InitReadiness ==
    /\ max_slides = 1
    /\ timeout = 60
    /\ numPages = 1
    /\ browser = "open"
    /\ shutdown_requested = FALSE
    /\ requested_at = "none"
    /\ pc = "capture"
    /\ elapsed = 10
    /\ total_slides = 1
    /\ method = "counter"
    /\ slide_count = 0
    /\ probe_i = 0
    /\ slide_num = 1
    /\ screenshots = << >>
    /\ result = NoResult
    /\ curPage = 1
    /\ last_capture = [slide |-> 0, outcome |-> "none"]
    /\ failed = {}
    /\ stopped = "none"
    /\ observed = "none"
    /\ keys = 1
    /\ shots = 0
    /\ captures = 0
    /\ advances = 0
    /\ pdf_calls = 0
    /\ slide_text = NoneText
    /\ match = << >>
    /\ faithful = TRUE
    /\ dom \in DomStates
    /\ verdict = "none"
    /\ counts = NoCounts
    /\ attempt = 0
    /\ page_url = "about:blank"
    /\ surface = NoSurface
    /\ runs = NoRuns
    /\ downloaders = [s \in SessionIds |-> NoDownloader]
    /\ handlers = DefaultHandlers

\* one evaluation of the predicate by waitForFunction
Readiness_evaluate ==
    /\ pc = "capture"
    /\ verdict = "none"
    /\ verdict' = IF ReadinessPredicate(dom) THEN "ready" ELSE "not_ready"
    /\ Fixed /\ DetectIdle /\ CaptureIdle
    /\ UNCHANGED << browser, signal_vars, pc, elapsed, result, curPage,
                    observed, keys, dom, counts, attempt, page_url, surface, runs,
                    downloaders,
                    handlers >>

NextReadiness == Readiness_evaluate

SpecReadiness == InitReadiness /\ [][NextReadiness]_vars

----------------------------------------------------------------------------
(* Two RobustPitchDownloader sessions in one process *)

\* largest slide budget of the two sessions
SessionSlides == 2

\* signal.signal(sig, self._signal_handler) for both signals: the table has
\* one entry per signal for the whole process, and the call replaces it
InstallHandlers(h, s) == [sig \in Signals |-> s]

\* the timeouts of the two-session runs: cutoffs of 0 and 15 s, under
\* which a capture loop makes at most three iterations
SessionTimeouts == {30, 45}

InitSessions ==
    /\ max_slides \in 1..SessionSlides
    /\ timeout \in SessionTimeouts
    /\ numPages = 1
    /\ browser = "none"
    /\ shutdown_requested = FALSE
    /\ requested_at = "none"
    /\ pc = "launch"
    /\ elapsed = 0
    /\ total_slides = 0
    /\ method = "none"
    /\ slide_count = 0
    /\ probe_i = 0
    /\ slide_num = 0
    /\ screenshots = << >>
    /\ result = NoResult
    /\ curPage = 1
    /\ last_capture = [slide |-> 0, outcome |-> "none"]
    /\ failed = {}
    /\ stopped = "none"
    /\ observed = "none"
    /\ keys = 0
    /\ shots = 0
    /\ captures = 0
    /\ advances = 0
    /\ pdf_calls = 0
    /\ slide_text = NoneText
    /\ match = << >>
    /\ faithful = TRUE
    /\ dom = BlankDom
    /\ verdict = "none"
    /\ counts = NoCounts
    /\ attempt = 0
    /\ page_url = "about:blank"
    /\ surface = NoSurface
    /\ runs = NoRuns
    /\ downloaders = [s \in SessionIds |-> NoDownloader]
    /\ handlers = DefaultHandlers

\* the variables of the single-session models
SingleRunIdle ==
    /\ Fixed /\ DetectIdle /\ CaptureIdle
    /\ UNCHANGED << browser, signal_vars, pc, elapsed, result, curPage,
                    observed, keys, dom, verdict, counts, attempt,
                    page_url, surface, runs >>

\* RobustPitchDownloader(...): the fields are set and the handlers installed
Session_init(s) ==
    /\ downloaders[s].pc = "new"
    /\ downloaders' = [downloaders EXCEPT ![s] =
                          [NoDownloader EXCEPT !.pc = "launch"]]
    /\ handlers' = InstallHandlers(handlers, s)
    /\ SingleRunIdle

\* the process receives sig: the installed bound method runs and sets the
\* flag of the object it is bound to
Session_signal_handler(sig) ==
    /\ handlers[sig] # "default"
    /\ downloaders' = [downloaders EXCEPT
                          ![handlers[sig]].shutdown_requested = TRUE]
    /\ UNCHANGED handlers
    /\ SingleRunIdle

\* Step 1: launch_browser(); False is returned as 'Browser launch failed'
Session_launch_browser(s) ==
    /\ downloaders[s].pc = "launch"
    /\ \/ \* launch() raises: no browser
          downloaders' = [downloaders EXCEPT ![s].pc = "finally"]
       \/ \* newPage, setUserAgent or setViewport raises: the browser is open
          downloaders' = [downloaders EXCEPT ![s].browser = "open",
                                              ![s].pc = "finally"]
       \/ downloaders' = [downloaders EXCEPT ![s].browser = "open",
                                              ![s].pc = "navigate"]
    /\ UNCHANGED handlers
    /\ SingleRunIdle

\* Step 2: navigate_to_presentation(url); False is returned as
\* 'Navigation failed'
Session_navigate_to_presentation(s) ==
    /\ downloaders[s].pc = "navigate"
    /\ \/ \* page.goto raises, at once or after its timeout of 30 s
          \E d \in {0, 30} :
             downloaders' = [downloaders EXCEPT ![s].elapsed = @ + d,
                                                 ![s].pc = "finally"]
       \/ \* sleep(5), and 5 more when the body text is short
          \E d \in {5, 10} :
             downloaders' = [downloaders EXCEPT ![s].elapsed = @ + d,
                                                 ![s].pc = "detect"]
    /\ UNCHANGED handlers
    /\ SingleRunIdle

\* Step 3: detect_slide_count_robust() up to the probe loop: sleep(3), the
\* counter text (its total can be 0 or negative) or a pattern of the page
\* text returning min(total, self.max_slides), else Home and sleep(2)
Session_detect_slide_count_robust(s) ==
    /\ downloaders[s].pc = "detect"
    /\ \/ \E n \in {-1, 0} \cup 1..SessionSlides :
             downloaders' =
                [downloaders EXCEPT ![s].elapsed = @ + 3,
                                    ![s].total_slides = Clamp(n, max_slides),
                                    ![s].pc = "home"]
       \/ \* keyboard.press('Home') raises: method 4, return 9
          downloaders' =
             [downloaders EXCEPT ![s].elapsed = @ + 3,
                                 ![s].total_slides = FallbackSlides,
                                 ![s].pc = "home"]
       \/ downloaders' =
             [downloaders EXCEPT ![s].elapsed = @ + 5,
                                 ![s].slide_count = 1,
                                 ![s].probe_i = 0,
                                 ![s].pc = "probe"]
    /\ UNCHANGED handlers
    /\ SingleRunIdle

\* head of an iteration of: for i in range(max_test), with the shutdown
\* check: if self._shutdown_requested: break; after the loop:
\* return min(slide_count, self.max_slides)
Session_probe_test(s) ==
    /\ downloaders[s].pc = "probe"
    /\ LET d == downloaders[s] IN
          IF \/ d.probe_i >= Min(RobustProbeLimit, max_slides)
             \/ d.shutdown_requested
          THEN downloaders' =
                  [downloaders EXCEPT
                      ![s].total_slides = Clamp(d.slide_count, max_slides),
                      ![s].pc = "home"]
          ELSE downloaders' = [downloaders EXCEPT ![s].pc = "probe_press"]
    /\ UNCHANGED handlers
    /\ SingleRunIdle

\* body of the iteration: ArrowRight, sleep(2), the Next-button evaluate
Session_probe_step(s) ==
    /\ downloaders[s].pc = "probe_press"
    /\ LET d == downloaders[s] IN
       \/ \* keyboard.press('ArrowRight') raises: method 4, return 9
          downloaders' = [downloaders EXCEPT ![s].total_slides = FallbackSlides,
                                              ![s].pc = "home"]
       \/ \* evaluate raises: break, return min(slide_count, self.max_slides)
          downloaders' =
             [downloaders EXCEPT
                 ![s].elapsed = @ + 2,
                 ![s].total_slides = Clamp(d.slide_count, max_slides),
                 ![s].pc = "home"]
       \/ \* the Next button is disabled: return slide_count + 1
          downloaders' =
             [downloaders EXCEPT ![s].elapsed = @ + 2,
                                 ![s].total_slides = d.slide_count + 1,
                                 ![s].pc = "home"]
       \/ downloaders' =
             [downloaders EXCEPT ![s].elapsed = @ + 2,
                                 ![s].slide_count = @ + 1,
                                 ![s].probe_i = @ + 1,
                                 ![s].pc = "probe"]
    /\ UNCHANGED handlers
    /\ SingleRunIdle

\* Step 4: Home, sleep(3)
Session_first_slide(s) ==
    /\ downloaders[s].pc = "home"
    /\ \/ \* keyboard.press('Home') raises: the outer except returns str(e)
          downloaders' = [downloaders EXCEPT ![s].pc = "finally"]
       \/ downloaders' = [downloaders EXCEPT ![s].elapsed = @ + 3,
                                              ![s].slide_num = 1,
                                              ![s].pc = "loop"]
    /\ UNCHANGED handlers
    /\ SingleRunIdle

\* top of a capture-loop iteration: end of range, the flag of this object,
\* the time budget
Session_loop(s) ==
    /\ downloaders[s].pc = "loop"
    /\ LET d == downloaders[s] IN
          IF \/ d.slide_num > d.total_slides
             \/ d.shutdown_requested
             \/ BudgetExceeded(d.elapsed, timeout)
          THEN downloaders' = [downloaders EXCEPT ![s].pc = "finally"]
          ELSE downloaders' = [downloaders EXCEPT ![s].pc = "capture"]
    /\ UNCHANGED handlers
    /\ SingleRunIdle

\* the body of the iteration: capture_slide_robust, the append, and
\* navigate_to_next_slide_robust when a slide is left
Session_capture(s) ==
    /\ downloaders[s].pc = "capture"
    /\ LET d == downloaders[s] IN
       \E shot_ok \in BOOLEAN, key_ok \in BOOLEAN :
          downloaders' =
             [downloaders EXCEPT
                 ![s].screenshots =
                     IF shot_ok THEN Append(@, d.slide_num) ELSE @,
                 ![s].elapsed =
                     IF d.slide_num < d.total_slides /\ key_ok
                     THEN @ + 4 ELSE @ + 2,
                 ![s].slide_num = NextSlideNum(@),
                 ![s].pc = "loop"]
    /\ UNCHANGED handlers
    /\ SingleRunIdle

\* the returns after the loop and the finally clause: close_browser
Session_finally(s) ==
    /\ downloaders[s].pc = "finally"
    /\ \E b \in CloseBrowser(downloaders[s].browser) :
          downloaders' = [downloaders EXCEPT ![s].browser = b,
                                              ![s].pc = "done"]
    /\ UNCHANGED handlers
    /\ SingleRunIdle

NextSessions ==
    \/ \E s \in SessionIds : Session_init(s)
    \/ \E sig \in Signals : Session_signal_handler(sig)
    \/ \E s \in SessionIds : Session_launch_browser(s)
    \/ \E s \in SessionIds : Session_navigate_to_presentation(s)
    \/ \E s \in SessionIds : Session_detect_slide_count_robust(s)
    \/ \E s \in SessionIds : Session_probe_test(s)
    \/ \E s \in SessionIds : Session_probe_step(s)
    \/ \E s \in SessionIds : Session_first_slide(s)
    \/ \E s \in SessionIds : Session_loop(s)
    \/ \E s \in SessionIds : Session_capture(s)
    \/ \E s \in SessionIds : Session_finally(s)

SpecSessions == InitSessions /\ [][NextSessions]_vars

----------------------------------------------------------------------------
(* AlternativePitchDownloader: detect_slide_count_sync, capture_slide_sync *)

\* largest number of elements of one family on the page
MaxCount == 2

AlternativeFallbackSlides == 9

CountValues == 0..MaxCount

\* match[0] of bodyText.match(/(\d+)\s*\/\s*(\d+)/): digits, blanks, a
\* slash, blanks, digits
BodyMatches ==
    { t \in AllTexts :
        /\ SlashCount(t) = 1
        /\ LET k == CHOOSE j \in 1..Len(t) : t[j] = "/"
               left == SubSeq(t, 1, k - 1)
               right == SubSeq(t, k + 1, Len(t))
           IN  /\ left # << >> /\ left[1] \in Digits
               /\ AllDigits(Strip(left))
               /\ right # << >> /\ right[Len(right)] \in Digits
               /\ AllDigits(Strip(right)) }

\* methods 2 to 4 of the evaluated script: the length of the first
\* non-empty selection, null (0 here) when all three are empty
FamilyCount(c) ==
    IF c.slides > 0 THEN c.slides
    ELSE IF c.dots > 0 THEN c.dots
    ELSE IF c.pagination > 0 THEN c.pagination
    ELSE 0

Max(a, b) == IF a >= b THEN a ELSE b

InitAlternative ==
    /\ max_slides \in BudgetValues
    /\ timeout = 60
    /\ numPages = 1
    /\ browser = "open"
    /\ shutdown_requested = FALSE
    /\ requested_at = "none"
    /\ pc \in {"detect", "capture"}
    /\ elapsed = 0
    /\ total_slides = IF pc = "capture" THEN 1 ELSE 0
    /\ method = IF pc = "capture" THEN "fallback" ELSE "none"
    /\ slide_count = 0
    /\ probe_i = 0
    /\ slide_num = IF pc = "capture" THEN 1 ELSE 0
    /\ screenshots = << >>
    /\ result = NoResult
    /\ curPage = 1
    /\ last_capture = [slide |-> 0, outcome |-> "none"]
    /\ failed = {}
    /\ stopped = "none"
    /\ observed = "none"
    /\ keys = 0
    /\ shots = 0
    /\ captures = 0
    /\ advances = 0
    /\ pdf_calls = 0
    /\ slide_text = NoneText
    /\ match = << >>
    /\ faithful = TRUE
    /\ dom = BlankDom
    /\ verdict = "none"
    /\ counts \in [slides : CountValues, dots : CountValues,
                    pagination : CountValues]
    /\ attempt = 0
    /\ page_url = "about:blank"
    /\ surface = NoSurface
    /\ runs = NoRuns
    /\ downloaders = [s \in SessionIds |-> NoDownloader]
    /\ handlers = DefaultHandlers

\* detect_slide_count_sync(): sleep(5), the script, then the Python tests
Alternative_detect_slide_count_sync ==
    /\ pc \in {"detect", "capture"}
    /\ elapsed' = elapsed + 5
    /\ \/ \* evaluate raises: the except returns 9
          DetectReturn(AlternativeFallbackSlides, "exception")
       \/ \* method 1 of the script: the body text holds a counter
          \E text \in BodyMatches :
             IF CounterParses(text)
             THEN DetectReturn(Clamp(CounterTotal(text), max_slides),
                               "counter")
             ELSE DetectReturn(AlternativeFallbackSlides, "fallback")
       \/ \* no counter in the body text: methods 2 to 4
          IF FamilyCount(counts) > 0
          THEN DetectReturn(Clamp(FamilyCount(counts), max_slides),
                            "density")
          ELSE DetectReturn(AlternativeFallbackSlides, "fallback")
    /\ Fixed /\ PageIdle /\ CaptureIdle
    /\ UNCHANGED << browser, signal_vars, slide_count, probe_i, slide_text,
                    match, faithful, result, curPage, observed, keys >>

\* capture_slide_sync(slide_num) and: if screenshot: screenshots.append(...)
Alternative_capture_slide_sync ==
    /\ pc = "capture"
    /\ captures' = captures + 1
    /\ elapsed' = elapsed + 5
    /\ \/ \* the content-validation evaluate raises: the except returns None
          /\ verdict' = "error"
          /\ last_capture' = [slide |-> slide_num, outcome |-> "probe_failed"]
          /\ failed' = failed \cup {slide_num}
          /\ UNCHANGED << screenshots, shots >>
       \/ \* the script returns; page.screenshot raises: return None
          /\ verdict' \in {"ready", "not_ready"}
          /\ shots' = shots + 1
          /\ last_capture' = [slide |-> slide_num, outcome |-> "shot_failed"]
          /\ failed' = failed \cup {slide_num}
          /\ UNCHANGED screenshots
       \/ \* the script returns, true or false: the screenshot is taken
          /\ verdict' \in {"ready", "not_ready"}
          /\ shots' = shots + 1
          /\ last_capture' = [slide |-> slide_num, outcome |-> "ok"]
          /\ screenshots' = AppendFrame(screenshots, Frame(slide_num, curPage))
          /\ UNCHANGED failed
    /\ pc' = "advance"
    /\ Fixed /\ DetectIdle
    /\ UNCHANGED << browser, signal_vars, slide_num, result, curPage,
                    stopped, observed, keys, advances, pdf_calls, dom,
                    counts, attempt, page_url, surface, runs,
                    downloaders, handlers >>

NextAlternative ==
    \/ Alternative_detect_slide_count_sync
    \/ Alternative_capture_slide_sync


SpecAlternative == InitAlternative /\ [][NextAlternative]_vars

----------------------------------------------------------------------------
(* SeleniumPitchDownloader: the capture loop of download_presentation *)

\* timeouts given to the constructor: the loop starts 30 s into the run
\* (sleeps of 20 s, 5 s and 5 s), the cutoff timeout - 30 is 30, 45 or 60 s
SeleniumTimeouts == {60, 75, 90}

\* send_keys(ARROW_RIGHT), send_keys(SPACE) and a click on the next button
\* each move the presentation forward by one page
RECURSIVE AfterInputs(_, _, _)
AfterInputs(p, n, k) ==
    IF k = 0 THEN p ELSE AfterInputs(AfterArrowRight(p, n), n, k - 1)

\* inputs one call of navigate_to_next_slide_sync delivers: none when
\* find_element or the first send_keys raises, 1 when the second raises,
\* 2 without a next button (or with a click that raises), 3 with one
InputsPerCall == {0, 1, 2, 3}

SeleniumFallbackSlides == 9

\* the URL forms navigate_to_presentation_sync tries in turn, and the
\* interactions it makes on a page without content: click on the body,
\* SPACE, ENTER, F11, scrollTo, each followed by sleep(3)
NavigationUrls == 5
Interactions == 5

\* keys delivered when the first j interactions completed: SPACE is the
\* second interaction, ENTER the third, F11 the fourth
KeysOfInteractions(j) == IF j <= 1 THEN 0 ELSE IF j >= 4 THEN 3 ELSE j - 1

\* the state at start_time = time.time() of download_presentation, the
\* signal handler installed
InitSelenium ==
    /\ max_slides \in BudgetValues
    /\ timeout \in SeleniumTimeouts
    /\ numPages \in PageCounts
    /\ browser = "none"
    /\ shutdown_requested = FALSE
    /\ requested_at = "none"
    /\ pc = "launch"
    /\ elapsed = 0
    /\ total_slides = 0
    /\ method = "none"
    /\ slide_count = 0
    /\ probe_i = 0
    /\ slide_num = 0
    /\ screenshots = << >>
    /\ result = NoResult
    /\ curPage = 1
    /\ last_capture = [slide |-> 0, outcome |-> "none"]
    /\ failed = {}
    /\ stopped = "none"
    /\ observed = "none"
    /\ keys = 0
    /\ shots = 0
    /\ captures = 0
    /\ advances = 0
    /\ pdf_calls = 0
    /\ slide_text = NoneText
    /\ match = << >>
    /\ faithful = TRUE
    /\ dom = BlankDom
    /\ verdict = "none"
    /\ counts = NoCounts
    /\ attempt = 0
    /\ page_url = "about:blank"
    /\ surface = NoSurface
    /\ runs = NoRuns
    /\ downloaders = [s \in SessionIds |-> NoDownloader]
    /\ handlers = DefaultHandlers

\* signal_handler of download_presentation
Selenium_signal_handler ==
    /\ pc # "done"
    /\ ~shutdown_requested
    /\ shutdown_requested' = TRUE
    /\ requested_at' = pc
    /\ Fixed /\ PageIdle /\ DetectIdle /\ CaptureIdle
    /\ UNCHANGED << browser, pc, elapsed, result, curPage, observed, keys >>

\* the variables the steps before the capture loop leave alone
SeleniumIdle ==
    /\ Fixed /\ CaptureIdle
    /\ UNCHANGED << signal_vars, slide_count, probe_i, slide_text, match,
                    faithful, dom, verdict, counts, page_url, surface, runs,
                    downloaders, handlers >>

\* launch_browser_sync(); False is returned as 'Browser launch failed'
Selenium_launch_browser_sync ==
    /\ pc = "launch"
    /\ \/ \* webdriver.Chrome raises: self.driver stays None
          /\ result' = Failure("Browser launch failed")
          /\ pc' = "finalize"
          /\ UNCHANGED browser
       \/ \* execute_script or set_window_size raises on the new driver
          /\ browser' = "open"
          /\ result' = Failure("Browser launch failed")
          /\ pc' = "finalize"
       \/ /\ browser' = "open"
          /\ pc' = "launch_check"
          /\ UNCHANGED result
    /\ SeleniumIdle
    /\ UNCHANGED << elapsed, curPage, keys, observed, total_slides, method,
                    attempt >>

\* if self._shutdown_requested: return 'Shutdown requested', after the
\* launch, after the navigation, after the detection and after the Home key
Selenium_shutdown_check ==
    /\ pc \in {"launch_check", "navigate_check", "detect_check", "home_check"}
    /\ IF shutdown_requested
       THEN /\ result' = Failure("Shutdown requested")
            /\ observed' = pc
            /\ pc' = "finalize"
       ELSE /\ pc' = IF pc = "launch_check" THEN "navigate"
                     ELSE IF pc = "navigate_check" THEN "detect"
                     ELSE IF pc = "detect_check" THEN "home" ELSE "loop"
            /\ UNCHANGED << result, observed >>
    /\ SeleniumIdle
    /\ UNCHANGED << browser, elapsed, curPage, keys, total_slides, method,
                    attempt >>

\* navigate_to_presentation_sync(url): one iteration of the loop over the
\* URL forms (attempt counts the forms tried), and the return False after
\* the last; False is returned as 'Navigation failed'
Selenium_navigate_to_presentation_sync ==
    /\ pc = "navigate"
    /\ IF attempt = NavigationUrls
       THEN /\ result' = Failure("Navigation failed")
            /\ pc' = "finalize"
            /\ UNCHANGED << elapsed, keys, curPage, attempt >>
       ELSE /\ UNCHANGED result
            /\ \/ \* driver.get raises: next URL
                  /\ attempt' = attempt + 1
                  /\ UNCHANGED << pc, elapsed, keys, curPage >>
               \/ \* sleep(20), the content check raises: next URL
                  /\ attempt' = attempt + 1
                  /\ elapsed' = elapsed + 20
                  /\ UNCHANGED << pc, keys, curPage >>
               \/ \* sleep(20), the content is there: return True
                  /\ elapsed' = elapsed + 20
                  /\ pc' = "navigate_check"
                  /\ UNCHANGED << keys, curPage, attempt >>
               \/ \* sleep(20), too little content: the first j interactions
                  \* complete (the next one raises when j < 5), sleep(10),
                  \* final check
                  \E j \in 0..Interactions :
                     /\ elapsed' = elapsed + 20 + 3 * j + 10
                     /\ keys' = keys + KeysOfInteractions(j)
                     /\ curPage' = IF j >= 2
                                   THEN AfterInputs(curPage, numPages, 1)
                                   ELSE curPage
                     /\ \/ \* the content is there: return True
                           /\ pc' = "navigate_check"
                           /\ UNCHANGED attempt
                        \/ \* still too little, or the check raises: next URL
                           /\ attempt' = attempt + 1
                           /\ UNCHANGED pc
    /\ SeleniumIdle
    /\ UNCHANGED << browser, observed, total_slides, method >>

\* detect_slide_count_sync(): sleep(5), then min(total, self.max_slides)
\* for a counter text 'n/total' or an element count (the total of a counter
\* text can be 0 or negative), and 9 when nothing is found or the script
\* raises
Selenium_detect_slide_count_sync ==
    /\ pc = "detect"
    /\ elapsed' = elapsed + 5
    /\ \E total \in { Clamp(n, max_slides) : n \in {-1, 0} \cup PageCounts }
                         \cup {SeleniumFallbackSlides} :
          /\ total_slides' = total
          /\ method' = IF total = SeleniumFallbackSlides
                       THEN "fallback" ELSE "counter"
    /\ pc' = "detect_check"
    /\ SeleniumIdle
    /\ UNCHANGED << browser, result, curPage, keys, observed, attempt >>

\* find_element(body), send_keys(Keys.HOME), sleep(5)
Selenium_first_slide ==
    /\ pc = "home"
    /\ \/ \* find_element or send_keys raises: str(e) is returned
          /\ result' = Failure("exception")
          /\ pc' = "finalize"
          /\ UNCHANGED << elapsed, curPage, keys, slide_num >>
       \/ /\ keys' = keys + 1
          /\ curPage' = AfterHome(curPage)
          /\ elapsed' = elapsed + 5
          /\ slide_num' = 1
          /\ pc' = "home_check"
          /\ UNCHANGED result
    /\ Fixed
    /\ UNCHANGED << browser, signal_vars, observed, total_slides, method,
                    attempt, slide_count, probe_i, slide_text, match,
                    faithful, dom, verdict, counts, page_url, surface, runs,
                    downloaders, handlers, screenshots, last_capture, failed,
                    stopped, shots, captures, advances, pdf_calls >>

\* top of one iteration: range, shutdown flag, time budget
Selenium_loop_top ==
    /\ pc = "loop"
    /\ IF slide_num > total_slides
       THEN /\ pc' = "finalize"
            /\ stopped' = "range"
            /\ UNCHANGED observed
       ELSE IF shutdown_requested
       THEN /\ pc' = "finalize"
            /\ stopped' = "shutdown"
            /\ observed' = "loop"
       ELSE IF BudgetExceeded(elapsed, timeout)
       THEN /\ pc' = "finalize"
            /\ stopped' = "budget"
            /\ UNCHANGED observed
       ELSE /\ pc' = "capture"
            /\ UNCHANGED << stopped, observed >>
    /\ Fixed /\ PageIdle /\ DetectIdle
    /\ UNCHANGED << browser, signal_vars, elapsed, slide_num,
                    screenshots, result, curPage, last_capture, failed,
                    keys, shots, captures, advances, pdf_calls >>

\* capture_slide_sync(slide_num) and: if screenshot: screenshots.append(...)
Selenium_capture_slide_sync ==
    /\ pc = "capture"
    /\ captures' = captures + 1
    /\ elapsed' = elapsed + 5
    /\ \/ \* execute_script raises: return None, no screenshot call
          /\ last_capture' = [slide |-> slide_num, outcome |-> "shot_failed"]
          /\ failed' = failed \cup {slide_num}
          /\ UNCHANGED << screenshots, shots >>
       \/ \* get_screenshot_as_png raises: return None
          /\ shots' = shots + 1
          /\ last_capture' = [slide |-> slide_num, outcome |-> "shot_failed"]
          /\ failed' = failed \cup {slide_num}
          /\ UNCHANGED screenshots
       \/ \* the screenshot is taken, content valid or not, and appended
          /\ shots' = shots + 1
          /\ last_capture' = [slide |-> slide_num, outcome |-> "ok"]
          /\ screenshots' = AppendFrame(screenshots, Frame(slide_num, curPage))
          /\ UNCHANGED failed
    /\ pc' = "advance"
    /\ Fixed /\ PageIdle /\ DetectIdle
    /\ UNCHANGED << browser, signal_vars, slide_num, result, curPage,
                    stopped, observed, keys, advances, pdf_calls >>

\* if slide_num < total_slides: self.navigate_to_next_slide_sync()
Selenium_navigate_to_next_slide_sync ==
    /\ pc = "advance"
    /\ IF slide_num < total_slides
       THEN \E k \in InputsPerCall :
               /\ advances' = advances + 1
               /\ keys' = keys + k
               /\ curPage' = AfterInputs(curPage, numPages, k)
               /\ elapsed' = elapsed + 3 * k
       ELSE UNCHANGED << elapsed, curPage, keys, advances >>
    /\ slide_num' = NextSlideNum(slide_num)
    /\ pc' = "loop"
    /\ Fixed /\ PageIdle /\ DetectIdle
    /\ UNCHANGED << browser, signal_vars, screenshots, result,
                    last_capture, failed, stopped, observed, shots, captures,
                    pdf_calls >>

\* after the loop (or an earlier return): the empty check, the PDF, the
\* result, and the finally clause with close_browser_sync
Selenium_finalize ==
    /\ pc = "finalize"
    /\ IF result # NoResult
       THEN UNCHANGED << result, pdf_calls >>
       ELSE IF NoFrames(screenshots)
       THEN /\ result' = Failure("No slides captured")
            /\ UNCHANGED pdf_calls
       ELSE /\ pdf_calls' = pdf_calls + 1
            /\ \/ result' = Success(screenshots)
               \/ \* PDF creation or the file copy raises: str(e) is returned
                  result' = Failure("exception")
    /\ browser' \in CloseBrowser(browser)
    /\ pc' = "done"
    /\ Fixed /\ PageIdle /\ DetectIdle
    /\ UNCHANGED << signal_vars, elapsed, slide_num, screenshots, curPage,
                    last_capture, failed, stopped, observed, keys, shots,
                    captures, advances >>

NextSelenium ==
    \/ Selenium_signal_handler
    \/ Selenium_launch_browser_sync
    \/ Selenium_shutdown_check
    \/ Selenium_navigate_to_presentation_sync
    \/ Selenium_detect_slide_count_sync
    \/ Selenium_first_slide
    \/ Selenium_loop_top
    \/ Selenium_capture_slide_sync
    \/ Selenium_navigate_to_next_slide_sync
    \/ Selenium_finalize

SpecSelenium == InitSelenium /\ [][NextSelenium]_vars

----------------------------------------------------------------------------
(* StealthPitchDownloader: capture_slide_sync *)

StealthMaxAttempts == 5

\* the polling loop is left by the break or after max_attempts evaluations
PollEnds(ok, n) == ok \/ n >= StealthMaxAttempts

InitStealth ==
    /\ max_slides \in BudgetValues
    /\ timeout \in TimeoutValues
    /\ numPages \in PageCounts
    /\ browser = "open"
    /\ shutdown_requested = FALSE
    /\ requested_at = "none"
    /\ pc = "capture"
    /\ elapsed = 0
    /\ total_slides = 1
    /\ method = "fallback"
    /\ slide_count = 0
    /\ probe_i = 0
    /\ slide_num = 1
    /\ screenshots = << >>
    /\ result = NoResult
    /\ curPage = 1
    /\ last_capture = [slide |-> 0, outcome |-> "none"]
    /\ failed = {}
    /\ stopped = "none"
    /\ observed = "none"
    /\ keys = 0
    /\ shots = 0
    /\ captures = 1
    /\ advances = 0
    /\ pdf_calls = 0
    /\ slide_text = NoneText
    /\ match = << >>
    /\ faithful = TRUE
    /\ dom = BlankDom
    /\ verdict = "none"
    /\ counts = NoCounts
    /\ attempt = 0
    /\ page_url = "about:blank"
    /\ surface = NoSurface
    /\ runs = NoRuns
    /\ downloaders = [s \in SessionIds |-> NoDownloader]
    /\ handlers = DefaultHandlers

\* the variables capture_slide_sync leaves alone
StealthIdle ==
    /\ Fixed /\ DetectIdle
    /\ UNCHANGED << browser, signal_vars, slide_num, result, curPage,
                    stopped, observed, keys, captures, advances, pdf_calls,
                    dom, counts, page_url, surface, runs,
                    downloaders, handlers >>

\* one iteration of the polling loop: the delay of 2 to 5 s, the evaluation
\* of the content-validation script, the break or the sleep of 3 s
Stealth_poll ==
    /\ pc = "capture"
    /\ attempt' = attempt + 1
    /\ \E delay \in {2, 5} :
          \/ \* evaluate raises: the except returns None
             /\ verdict' = "error"
             /\ elapsed' = elapsed + delay
             /\ last_capture' = [slide |-> slide_num, outcome |-> "probe_failed"]
             /\ failed' = failed \cup {slide_num}
             /\ pc' = "advance"
          \/ \E ok \in BOOLEAN :
                /\ verdict' = IF ok THEN "ready" ELSE "not_ready"
                /\ elapsed' = IF PollEnds(ok, attempt') THEN elapsed + delay
                                                         ELSE elapsed + delay + 3
                /\ pc' = IF PollEnds(ok, attempt') THEN "shoot" ELSE "capture"
                /\ UNCHANGED << last_capture, failed >>
    /\ UNCHANGED << screenshots, shots >>
    /\ StealthIdle

\* after the loop: the mouse move, the short delay, the screenshot
Stealth_screenshot ==
    /\ pc = "shoot"
    /\ \/ \* mouse.move raises: the except returns None
          /\ last_capture' = [slide |-> slide_num, outcome |-> "move_failed"]
          /\ failed' = failed \cup {slide_num}
          /\ UNCHANGED << screenshots, shots, elapsed >>
       \/ \* page.screenshot raises: the except returns None
          /\ shots' = shots + 1
          /\ elapsed' = elapsed + 1
          /\ last_capture' = [slide |-> slide_num, outcome |-> "shot_failed"]
          /\ failed' = failed \cup {slide_num}
          /\ UNCHANGED screenshots
       \/ \* the screenshot is returned and appended by the caller
          /\ shots' = shots + 1
          /\ elapsed' = elapsed + 1
          /\ last_capture' = [slide |-> slide_num, outcome |-> "ok"]
          /\ screenshots' = AppendFrame(screenshots, Frame(slide_num, curPage))
          /\ UNCHANGED failed
    /\ pc' = "advance"
    /\ UNCHANGED << verdict, attempt >>
    /\ StealthIdle

NextStealth ==
    \/ Stealth_poll
    \/ Stealth_screenshot

SpecStealth == InitStealth /\ [][NextStealth]_vars

----------------------------------------------------------------------------
(* NuclearPitchDownloader: the navigation probe on its own, with slide     *)
(* budgets and presentations on both sides of the limit of 20 steps        *)

ProbeBudgets == BudgetValues \cup {NuclearProbeLimit, NuclearProbeLimit + 1}
ProbePageCounts == PageCounts \cup {NuclearProbeLimit + 2}

InitProbe ==
    /\ max_slides \in ProbeBudgets
    /\ timeout = 60
    /\ numPages \in ProbePageCounts
    /\ browser = "open"
    /\ shutdown_requested = FALSE
    /\ requested_at = "none"
    /\ pc = "detect_probe"
    /\ elapsed = 0
    /\ total_slides = 0
    /\ method = "none"
    /\ slide_count = 0
    /\ probe_i = 0
    /\ slide_num = 0
    /\ screenshots = << >>
    /\ result = NoResult
    /\ curPage = 1
    /\ last_capture = [slide |-> 0, outcome |-> "none"]
    /\ failed = {}
    /\ stopped = "none"
    /\ observed = "none"
    /\ keys = 0
    /\ shots = 0
    /\ captures = 0
    /\ advances = 0
    /\ pdf_calls = 0
    /\ slide_text = NoneText
    /\ match = << >>
    /\ faithful = TRUE
    /\ dom = BlankDom
    /\ verdict = "none"
    /\ counts = NoCounts
    /\ attempt = 0
    /\ page_url = "about:blank"
    /\ surface = NoSurface
    /\ runs = NoRuns
    /\ downloaders = [s \in SessionIds |-> NoDownloader]
    /\ handlers = DefaultHandlers

NextProbe ==
    \/ Nuclear_detect_probe
    \/ Nuclear_probe_step
    \/ Nuclear_probe_exit

SpecProbe == InitProbe /\ [][NextProbe]_vars

----------------------------------------------------------------------------
(* DirectPitchDownloader *)

DirectFallbackSlides == 9

\* what one navigation strategy does: page.goto raises at once, raises a
\* TimeoutError after its 60 s, or completes and is followed by sleep(15)
\* and the content check, which finds the content (break), finds too little
\* (next strategy) or raises (next strategy)
StrategyOutcomes == {"raises", "timeout", "content", "short", "check_raises"}

RECURSIVE GotoLoop(_, _, _)
\* the loop over navigation_strategies from strategy i on: the seconds
\* spent and whether a page.goto completed
GotoLoop(os, i, acc) ==
    IF i > Len(os) THEN acc
    ELSE LET spent == IF os[i] = "raises" THEN 0
                      ELSE IF os[i] = "timeout" THEN 60 ELSE 15
             now == [elapsed |-> acc.elapsed + spent,
                     loaded |-> acc.loaded \/
                                os[i] \in {"content", "short", "check_raises"}]
         IN  IF os[i] = "content" THEN now ELSE GotoLoop(os, i + 1, now)

\* the API endpoints try_requests_approach asks, and the timeout of each
\* requests.get
ApiEndpoints == 5
RequestTimeout == 30

\* the state at start_time = time.time() of download_presentation, the
\* signal handler installed; slide_count 0 is self.slide_count = None
InitDirect ==
    /\ max_slides \in BudgetValues
    /\ timeout \in TimeoutValues
    /\ numPages \in PageCounts
    /\ browser = "none"
    /\ shutdown_requested = FALSE
    /\ requested_at = "none"
    /\ pc = "requests"
    /\ elapsed = 0
    /\ total_slides = 0
    /\ method = "none"
    /\ slide_count = 0
    /\ probe_i = 0
    /\ slide_num = 0
    /\ screenshots = << >>
    /\ result = NoResult
    /\ curPage = 1
    /\ last_capture = [slide |-> 0, outcome |-> "none"]
    /\ failed = {}
    /\ stopped = "none"
    /\ observed = "none"
    /\ keys = 0
    /\ shots = 0
    /\ captures = 0
    /\ advances = 0
    /\ pdf_calls = 0
    /\ slide_text = NoneText
    /\ match = << >>
    /\ faithful = TRUE
    /\ dom = BlankDom
    /\ verdict = "none"
    /\ counts = NoCounts
    /\ attempt = 0
    /\ page_url = "about:blank"
    /\ surface = NoSurface
    /\ runs = NoRuns
    /\ downloaders = [s \in SessionIds |-> NoDownloader]
    /\ handlers = DefaultHandlers

\* the variables no step of the Direct run changes
DirectIdle ==
    /\ Fixed
    /\ UNCHANGED << slide_count, probe_i, slide_text, match, faithful, dom,
                    verdict, counts, attempt, surface, runs, downloaders,
                    handlers >>

\* signal_handler of download_presentation
Direct_signal_handler ==
    /\ pc # "done"
    /\ ~shutdown_requested
    /\ shutdown_requested' = TRUE
    /\ requested_at' = pc
    /\ DirectIdle /\ CaptureIdle
    /\ UNCHANGED << browser, pc, elapsed, result, curPage, observed, keys,
                    total_slides, method, page_url >>

\* Step 1, first half: try_requests_approach(url). The endpoints are asked
\* in turn; a requests.get that times out costs its 30 s, any other answer
\* without slides costs nothing, and the first answer holding a slides list
\* sets self.slide_count to its length and ends the loop.
Direct_try_requests_approach ==
    /\ pc = "requests"
    /\ \E k \in 0..ApiEndpoints :
          /\ elapsed' = elapsed + k * RequestTimeout
          /\ \/ UNCHANGED slide_count
             \/ /\ k < ApiEndpoints
                /\ \E n \in {0} \cup PageCounts : slide_count' = n
    /\ pc' = "launch"
    /\ Fixed /\ CaptureIdle
    /\ UNCHANGED << browser, signal_vars, result, curPage, keys, observed,
                    total_slides, method, page_url, probe_i, slide_text,
                    match, faithful, dom, verdict, counts, attempt, surface,
                    runs, downloaders, handlers >>

\* Step 1, second half: launch_browser_sync(), taken after either outcome
\* of the requests; False is returned as 'Browser launch failed'
Direct_launch_browser_sync ==
    /\ pc = "launch"
    /\ \/ \* launch raises for each of the three configurations
          /\ result' = Failure("Browser launch failed")
          /\ pc' = "finalize"
          /\ UNCHANGED browser
       \/ \* browser.newPage or page.setUserAgent raises
          /\ browser' = "open"
          /\ result' = Failure("Browser launch failed")
          /\ pc' = "finalize"
       \/ /\ browser' = "open"
          /\ pc' = "launch_check"
          /\ UNCHANGED result
    /\ DirectIdle /\ CaptureIdle
    /\ UNCHANGED << signal_vars, elapsed, curPage, keys, total_slides, method,
                    observed, page_url >>

\* Step 2: navigate_to_presentation_sync(url)
Direct_navigate_to_presentation_sync ==
    /\ pc = "navigate"
    /\ \E has_id \in BOOLEAN :
       \/ \* '/v/' in url and an API endpoint answers with slides: return True
          /\ has_id
          /\ pc' = "navigate_check"
          /\ UNCHANGED << page_url, elapsed, result >>
       \/ \E os \in [1..3 -> StrategyOutcomes] :
             LET nav == GotoLoop(os, 1, [elapsed |-> 0, loaded |-> FALSE])
             IN  /\ page_url' = IF nav.loaded THEN "target" ELSE page_url
                 /\ \/ \* the page data holds slides: return True
                       /\ has_id
                       /\ elapsed' = elapsed + nav.elapsed
                       /\ pc' = "navigate_check"
                       /\ UNCHANGED result
                    \/ \* the content_info evaluate raises: return False
                       /\ elapsed' = elapsed + nav.elapsed
                       /\ result' = Failure("Navigation failed")
                       /\ pc' = "finalize"
                    \/ \* textLength is 0: return True
                       /\ elapsed' = elapsed + nav.elapsed
                       /\ pc' = "navigate_check"
                       /\ UNCHANGED result
                    \/ \* sleep(15), page.click('body') raises: return False
                       /\ elapsed' = elapsed + nav.elapsed + 15
                       /\ result' = Failure("Navigation failed")
                       /\ pc' = "finalize"
                    \/ \* sleep(15), click, sleep(5): return True
                       /\ elapsed' = elapsed + nav.elapsed + 20
                       /\ pc' = "navigate_check"
                       /\ UNCHANGED result
    /\ DirectIdle /\ CaptureIdle
    /\ UNCHANGED << browser, signal_vars, curPage, keys, total_slides, method,
                    observed >>

\* if self._shutdown_requested: return 'Shutdown requested', after the
\* launch, after the navigation, after the detection and after the Home key
Direct_shutdown_check ==
    /\ pc \in {"launch_check", "navigate_check", "detect_check", "home_check"}
    /\ IF shutdown_requested
       THEN /\ result' = Failure("Shutdown requested")
            /\ observed' = pc
            /\ pc' = "finalize"
       ELSE /\ pc' = IF pc = "launch_check" THEN "navigate"
                     ELSE IF pc = "navigate_check" THEN "detect"
                     ELSE IF pc = "detect_check" THEN "home" ELSE "loop"
            /\ UNCHANGED << result, observed >>
    /\ DirectIdle /\ CaptureIdle
    /\ UNCHANGED << browser, signal_vars, elapsed, curPage, keys,
                    total_slides, method, page_url >>

\* Step 3: the slide count of the requests when there is one, else
\* detect_slide_count_sync: sleep(5), then min(total, self.max_slides) for a
\* counter text or an element count (the total of a counter text can be 0
\* or negative), and 9 when nothing is found or the evaluate raises
Direct_detect_slide_count_sync ==
    /\ pc = "detect"
    /\ IF slide_count # 0
       THEN /\ total_slides' = Clamp(slide_count, max_slides)
            /\ method' = "requests"
            /\ UNCHANGED elapsed
       ELSE /\ elapsed' = elapsed + 5
            /\ \E total \in
                     { Clamp(n, max_slides) : n \in {-1, 0} \cup PageCounts }
                         \cup {DirectFallbackSlides} :
                  /\ total_slides' = total
                  /\ method' = IF total = DirectFallbackSlides
                               THEN "fallback" ELSE "counter"
    /\ pc' = "detect_check"
    /\ DirectIdle /\ CaptureIdle
    /\ UNCHANGED << browser, signal_vars, result, curPage, keys, observed,
                    page_url >>

\* Step 4: Home, sleep(5)
Direct_first_slide ==
    /\ pc = "home"
    /\ \/ \* keyboard.press('Home') raises: str(e) is returned
          /\ result' = Failure("exception")
          /\ pc' = "finalize"
          /\ UNCHANGED << elapsed, curPage, keys, slide_num >>
       \/ /\ keys' = keys + 1
          /\ curPage' = AfterHome(curPage)
          /\ elapsed' = elapsed + 5
          /\ slide_num' = 1
          /\ pc' = "home_check"
          /\ UNCHANGED result
    /\ DirectIdle
    /\ UNCHANGED << browser, signal_vars, total_slides, method, page_url,
                    screenshots, last_capture, failed, stopped, observed,
                    shots, captures, advances, pdf_calls >>

\* top of a capture-loop iteration: range, shutdown flag, time budget
Direct_loop_top ==
    /\ pc = "loop"
    /\ IF slide_num > total_slides
       THEN /\ pc' = "finalize"
            /\ stopped' = "range"
            /\ UNCHANGED observed
       ELSE IF shutdown_requested
       THEN /\ pc' = "finalize"
            /\ stopped' = "shutdown"
            /\ observed' = "loop"
       ELSE IF BudgetExceeded(elapsed, timeout)
       THEN /\ pc' = "finalize"
            /\ stopped' = "budget"
            /\ UNCHANGED observed
       ELSE /\ pc' = "capture"
            /\ UNCHANGED << stopped, observed >>
    /\ DirectIdle
    /\ UNCHANGED << browser, signal_vars, elapsed, slide_num, screenshots,
                    result, curPage, last_capture, failed, keys, shots,
                    captures, advances, pdf_calls, total_slides, method,
                    page_url >>

\* the body of the iteration: capture_slide_sync, the append, and
\* navigate_to_next_slide_sync when a slide is left
Direct_capture_slide_sync ==
    /\ pc = "capture"
    /\ captures' = captures + 1
    /\ shots' = shots + 1
    /\ \/ \* page.screenshot raises: return None
          /\ last_capture' = [slide |-> slide_num, outcome |-> "shot_failed"]
          /\ failed' = failed \cup {slide_num}
          /\ UNCHANGED screenshots
       \/ /\ last_capture' = [slide |-> slide_num, outcome |-> "ok"]
          /\ screenshots' = AppendFrame(screenshots, Frame(slide_num, curPage))
          /\ UNCHANGED failed
    /\ IF slide_num < total_slides
       THEN /\ advances' = advances + 1
            /\ \/ \* keyboard.press('ArrowRight') raises
                  /\ elapsed' = elapsed + 3
                  /\ UNCHANGED << curPage, keys >>
               \/ /\ keys' = keys + 1
                  /\ curPage' = AfterArrowRight(curPage, numPages)
                  /\ elapsed' = elapsed + 6
       ELSE /\ elapsed' = elapsed + 3
            /\ UNCHANGED << curPage, keys, advances >>
    /\ slide_num' = NextSlideNum(slide_num)
    /\ pc' = "loop"
    /\ DirectIdle
    /\ UNCHANGED << browser, signal_vars, result, total_slides, method,
                    page_url, pdf_calls, stopped, observed >>

\* the returns after the loop (or an earlier return), and the finally
\* clause with close_browser_sync
Direct_finalize ==
    /\ pc = "finalize"
    /\ IF result # NoResult
       THEN UNCHANGED << result, pdf_calls >>
       ELSE IF NoFrames(screenshots)
       THEN /\ result' = Failure("No slides captured")
            /\ UNCHANGED pdf_calls
       ELSE /\ pdf_calls' = pdf_calls + 1
            /\ \/ result' = Success(screenshots)
               \/ \* PDF creation or the file copy raises: str(e) is returned
                  result' = Failure("exception")
    /\ browser' \in CloseBrowser(browser)
    /\ pc' = "done"
    /\ DirectIdle
    /\ UNCHANGED << signal_vars, elapsed, slide_num, screenshots, curPage,
                    last_capture, failed, stopped, observed, keys, shots,
                    captures, advances, total_slides, method, page_url >>

NextDirect ==
    \/ Direct_signal_handler
    \/ Direct_try_requests_approach
    \/ Direct_launch_browser_sync
    \/ Direct_navigate_to_presentation_sync
    \/ Direct_shutdown_check
    \/ Direct_detect_slide_count_sync
    \/ Direct_first_slide
    \/ Direct_loop_top
    \/ Direct_capture_slide_sync
    \/ Direct_finalize

SpecDirect == InitDirect /\ [][NextDirect]_vars

----------------------------------------------------------------------------
(* SimpleRobustPitchDownloader and SyncRobustPitchDownloader, run against  *)
(* the same scripted surface                                               *)

\* what page.evaluate answers to the counter script, when it returns
ScriptTexts ==
    { NoneText, << "x" >>, << "/", "x" >>, << "/", "0" >>, << "/", "1" >>,
      << "1", "/", "2" >>, << "/", "1", "2" >>, << "/", "-", "1" >>,
      << "1", "/", "/" >> }

\* the answers of the surface to one run, fixed in advance: both variants
\* are run against the same script (shot_fail and arrow_fail are the slides
\* whose page.screenshot and whose keyboard.press('ArrowRight') raise)
Scripts ==
    [ fixed : {TRUE},
      launch : {"ok", "launch_raises", "page_raises"},
      goto_ok : BOOLEAN,
      evaluate_ok : BOOLEAN,
      text : ScriptTexts,
      home_ok : BOOLEAN,
      shot_fail : SUBSET (1..2),
      arrow_fail : SUBSET {1},
      pdf_ok : BOOLEAN ]

\* SimpleRobustPitchDownloader.detect_slide_count_simple
SimpleDetect(sf, max) ==
    IF ~sf.evaluate_ok
    THEN 9      \* the inner except, then: return 9
    ELSE IF Truthy(sf.text) /\ SlashCount(sf.text) >= 1
    THEN IF SlashCount(sf.text) = 1
         THEN IF IsInt(SecondPart(sf.text))
              THEN Min(IntValue(SecondPart(sf.text)), max)
              ELSE 9    \* ValueError: pass
         ELSE 9
    ELSE 9

RECURSIVE SimpleCaptureLoop(_, _, _, _)
\* the for loop of SimpleRobustPitchDownloader.download_presentation, from
\* slide st.slide_num on, with capture_slide_simple and
\* navigate_to_next_slide_simple
SimpleCaptureLoop(sf, total, t, st) ==
    IF st.slide_num > total THEN st
    ELSE IF st.elapsed > t - 30 THEN st
    ELSE LET n == st.slide_num
             captured ==
                 [st EXCEPT !.elapsed = @ + 3,
                            !.ops = Append(@, "screenshot"),
                            !.frames = IF n \in sf.shot_fail
                                       THEN @ ELSE Append(@, n)]
             advanced ==
                 IF n < total
                 THEN [captured EXCEPT
                         !.ops = Append(@, "ArrowRight"),
                         !.elapsed = IF n \in sf.arrow_fail THEN @ ELSE @ + 3]
                 ELSE captured
         IN  SimpleCaptureLoop(sf, total, t,
                               [advanced EXCEPT !.slide_num = n + 1])

\* SimpleRobustPitchDownloader.download_presentation, with launch_browser,
\* navigate_to_presentation and close_browser
SimpleRun(sf, max, t) ==
    LET ret(ops, ok, err, k) ==
            [done |-> TRUE, ops |-> ops, success |-> ok, error |-> err,
             slides |-> k]
    IN
    IF sf.launch = "launch_raises"
    THEN ret(<< "launch" >>, FALSE, "Browser launch failed", 0)
    ELSE IF sf.launch = "page_raises"
    THEN ret(<< "launch", "newPage", "close" >>, FALSE,
             "Browser launch failed", 0)
    ELSE IF ~sf.goto_ok
    THEN ret(<< "launch", "newPage", "goto", "close" >>, FALSE,
             "Navigation failed", 0)
    ELSE
    LET total == SimpleDetect(sf, max)
        pre == << "launch", "newPage", "goto", "evaluate", "Home" >>
    IN  IF ~sf.home_ok
        THEN ret(Append(pre, "close"), FALSE, "exception", 0)
        ELSE
        LET st == SimpleCaptureLoop(sf, total, t,
                      [slide_num |-> 1, elapsed |-> 8 + 3 + 3,
                       frames |-> << >>, ops |-> pre])
        IN  IF st.frames = << >>
            THEN ret(Append(st.ops, "close"), FALSE, "No slides captured", 0)
            ELSE IF ~sf.pdf_ok
            THEN ret(Append(st.ops, "close"), FALSE, "exception", 0)
            ELSE ret(Append(st.ops, "close"), TRUE, "", Len(st.frames))

\* Variant of SyncDetect: the parsed total is returned without min()
SyncDetect_Unclamped(sf, max) ==
    IF sf.evaluate_ok /\ CounterParses(sf.text)
    THEN IntValue(SecondPart(sf.text)) ELSE 9

\* SyncRobustPitchDownloader.detect_slide_count_sync
SyncDetect(sf, max) ==
    IF ~sf.evaluate_ok
    THEN 9      \* the outer except: return 9
    ELSE IF Truthy(sf.text) /\ SlashCount(sf.text) >= 1
    THEN IF SlashCount(sf.text) = 1
         THEN IF IsInt(SecondPart(sf.text))
              THEN Min(IntValue(SecondPart(sf.text)), max)
              ELSE 9    \* ValueError: pass
         ELSE 9
    ELSE 9

RECURSIVE SyncCaptureLoop(_, _, _, _)
\* the for loop of SyncRobustPitchDownloader.download_presentation, from
\* slide st.slide_num on, with capture_slide_sync and
\* navigate_to_next_slide_sync
SyncCaptureLoop(sf, total, t, st) ==
    IF st.slide_num > total \/ st.elapsed > t - 30 THEN st
    ELSE LET n == st.slide_num
             shot_ok == n \notin sf.shot_fail
             key_ok == n \notin sf.arrow_fail
             ops1 == Append(st.ops, "screenshot")
             frames1 == IF shot_ok THEN Append(st.frames, n) ELSE st.frames
             ops2 == IF n < total THEN Append(ops1, "ArrowRight") ELSE ops1
             slept == IF n < total /\ key_ok THEN 6 ELSE 3
         IN  SyncCaptureLoop(sf, total, t,
                 [slide_num |-> n + 1, elapsed |-> st.elapsed + slept,
                  frames |-> frames1, ops |-> ops2])

\* SyncRobustPitchDownloader.download_presentation, with
\* launch_browser_sync, navigate_to_presentation_sync and close_browser_sync
SyncRun(sf, max, t) ==
    LET closed(ops) == IF sf.launch = "launch_raises"
                       THEN ops ELSE Append(ops, "close")
        fail(ops, err) ==
            [done |-> TRUE, ops |-> closed(ops), success |-> FALSE,
             error |-> err, slides |-> 0]
        launched == IF sf.launch = "launch_raises"
                    THEN << "launch" >> ELSE << "launch", "newPage" >>
    IN
    IF sf.launch # "ok" THEN fail(launched, "Browser launch failed")
    ELSE IF ~sf.goto_ok
    THEN fail(Append(launched, "goto"), "Navigation failed")
    ELSE
    LET total == SyncDetect(sf, max)
        pre == launched \o << "goto", "evaluate", "Home" >>
        st == SyncCaptureLoop(sf, total, t,
                  [slide_num |-> 1, elapsed |-> 14, frames |-> << >>,
                   ops |-> pre])
    IN  IF ~sf.home_ok THEN fail(pre, "exception")
        ELSE IF Len(st.frames) = 0 THEN fail(st.ops, "No slides captured")
        ELSE IF ~sf.pdf_ok THEN fail(st.ops, "exception")
        ELSE [done |-> TRUE, ops |-> closed(st.ops), success |-> TRUE,
              error |-> "", slides |-> Len(st.frames)]

InitPair ==
    /\ max_slides \in BudgetValues
    /\ timeout \in TimeoutValues
    /\ numPages = 1
    /\ browser = "none"
    /\ shutdown_requested = FALSE
    /\ requested_at = "none"
    /\ pc = "pair"
    /\ elapsed = 0
    /\ total_slides = 0
    /\ method = "none"
    /\ slide_count = 0
    /\ probe_i = 0
    /\ slide_num = 0
    /\ screenshots = << >>
    /\ result = NoResult
    /\ curPage = 1
    /\ last_capture = [slide |-> 0, outcome |-> "none"]
    /\ failed = {}
    /\ stopped = "none"
    /\ observed = "none"
    /\ keys = 0
    /\ shots = 0
    /\ captures = 0
    /\ advances = 0
    /\ pdf_calls = 0
    /\ slide_text = NoneText
    /\ match = << >>
    /\ faithful = TRUE
    /\ dom = BlankDom
    /\ verdict = "none"
    /\ counts = NoCounts
    /\ attempt = 0
    /\ page_url = "about:blank"
    /\ surface \in Scripts
    /\ runs = NoRuns
    /\ downloaders = [s \in SessionIds |-> NoDownloader]
    /\ handlers = DefaultHandlers

\* a SimpleRobustPitchDownloader(max_slides, timeout) downloads the
\* presentation
Simple_download_presentation ==
    /\ ~runs.simple.done
    /\ runs' = [runs EXCEPT !.simple = SimpleRun(surface, max_slides, timeout)]
    /\ Fixed /\ DetectIdle /\ CaptureIdle
    /\ UNCHANGED << browser, signal_vars, pc, elapsed, result, curPage,
                    observed, keys, dom, verdict, counts, attempt, page_url,
                    surface, downloaders, handlers >>

\* a SyncRobustPitchDownloader(max_slides, timeout) downloads the
\* presentation
Sync_download_presentation ==
    /\ ~runs.sync.done
    /\ runs' = [runs EXCEPT !.sync = SyncRun(surface, max_slides, timeout)]
    /\ Fixed /\ DetectIdle /\ CaptureIdle
    /\ UNCHANGED << browser, signal_vars, pc, elapsed, result, curPage,
                    observed, keys, dom, verdict, counts, attempt, page_url,
                    surface, downloaders, handlers >>

NextPair ==
    \/ Simple_download_presentation
    \/ Sync_download_presentation

SpecPair == InitPair /\ [][NextPair]_vars

----------------------------------------------------------------------------
(* Properties *)

\* slide numbers that have a frame in the screenshots list
FrameSlides == { screenshots[k].slide : k \in 1..Len(screenshots) }

\* number of slides whose capture_slide call has returned
Attempted ==
    IF pc = "advance" THEN slide_num
    ELSE IF slide_num >= 1 THEN slide_num - 1
    ELSE 0

\* the run is inside or past the body of the capture loop
InLoopBody == pc \in {"capture", "advance"}

\* C1: at every point of the capture loop the number of frames is at most
\* min(max_slides, total_slides), and a success result reports at most
\* max_slides slides.
C1_FramesWithinBudget ==
    /\ InLoopBody => Len(screenshots) <= Min(max_slides, total_slides)
    /\ (pc = "done" /\ result.success) => result.slides <= max_slides

\* C2: detect_slide_count returns a value no greater than max_slides on every
\* return path.
C2_DetectClamped ==
    method # "none" => total_slides <= max_slides

\* C3 (as stated): when the budget check stops the loop, the returned result
\* is a success.
C3_BudgetStopSucceeds ==
    (pc = "done" /\ stopped = "budget") => result.success

\* C3 (amended): when the budget check trips at the top of the iteration for
\* slide i, the frames kept are exactly those of the slides below i whose
\* capture returned a screenshot; the result is a success carrying them if
\* there is at least one (unless PDF assembly raises), and the failure
\* 'No slides captured' if there is none.
C3_BudgetStopFinalizes ==
    stopped = "budget" =>
        /\ slide_num <= total_slides
        /\ FrameSlides = (1..(slide_num - 1)) \ failed
        /\ Len(screenshots) = Cardinality(FrameSlides)
        /\ pc = "done" =>
              IF screenshots = << >>
              THEN result = Failure("No slides captured")
              ELSE result \in {Success(screenshots), Failure("exception")}

C3_Witness ==
    /\ pc = "done"
    /\ stopped = "budget"
    /\ result = Success(screenshots)
    /\ Len(screenshots) >= 2
    /\ failed # {}

\* C4: once elapsed has exceeded timeout - 30, no step starts an ArrowRight
\* advance or a new slide capture.
C4_NoNavigationAfterCutoff ==
    [][ BudgetExceeded(elapsed, timeout) =>
            (advances' = advances /\ captures' = captures) ]_vars

\* C5: once the run has observed the shutdown flag at a check point, no step
\* presses a key or takes a screenshot.
C5_NoInputAfterShutdownObserved ==
    [][ observed # "none" => (keys' = keys /\ shots' = shots) ]_vars

\* C6: when the signal arrives between two iterations, after k >= 1 slides
\* were captured, and PDF assembly does not raise, the result carries exactly
\* those k frames and differs from the result a complete capture of the same
\* frames returns (Success(frames)).
C6_AbortReported ==
    (/\ pc = "done"
     /\ stopped = "shutdown"
     /\ requested_at \in {"advance", "loop"}
     /\ Len(screenshots) >= 1
     /\ result.error # "exception") =>
        /\ result.data = CreatePdf(screenshots)
        /\ result.slides = Len(screenshots)
        /\ result # Success(screenshots)

\* C7: when the readiness wait of capture_slide times out, the screenshot of
\* that slide is still taken and its frame appended.
C7_CaptureDespiteTimeout ==
    (pc = "advance" /\ last_capture.outcome = "not_ready") =>
        last_capture.slide \in FrameSlides

\* C8: the slide numbers of the frames in screenshots are strictly ascending,
\* without duplicates, in every reachable state.
C8_StrictlyAscending ==
    \A j, k \in 1..Len(screenshots) :
        j < k => screenshots[j].slide < screenshots[k].slide

C8_Witness ==
    /\ Len(screenshots) >= 3
    /\ failed # {}

\* C9 (as stated): the slide numbers that have a frame always form a gap-free
\* prefix 1..k.
C9_GapFreePrefix ==
    FrameSlides = 1..Cardinality(FrameSlides)

\* C9 (amended): the slide numbers that have a frame are exactly the slides
\* attempted so far (a prefix of 1..total_slides) minus those whose
\* capture_slide call returned None; a slide is missing only if its capture
\* failed or it lies in the trailing run that was not reached.
C9_PrefixMinusFailed ==
    /\ FrameSlides = (1..Attempted) \ failed
    /\ failed \subseteq 1..Attempted
    /\ Attempted >= 1 => Attempted <= total_slides

C9_Witness ==
    /\ 1 \in failed
    /\ 2 \in FrameSlides
    /\ 3 \in FrameSlides

\* C10: a success result always has slides >= 1; when the capture loop ends
\* with no frame the result is the failure 'No slides captured' and PDF
\* assembly is not invoked.
C10_NoEmptySuccess ==
    /\ result.success => result.slides >= 1
    /\ (pc \in {"finally", "done"} /\ stopped # "none" /\ screenshots = << >>)
          => (result = Failure("No slides captured") /\ pdf_calls = 0)

C10_Witness ==
    /\ pc = "done"
    /\ stopped = "range"
    /\ total_slides >= 1
    /\ screenshots = << >>
    /\ result = Failure("No slides captured")

\* C11: in a Nuclear run a failed navigation is terminal: once the result is
\* 'Navigation failed' the run is in its cleanup or has returned, and no
\* slide-count detection, key press (Home, ArrowRight), capture, screenshot
\* or PDF assembly has been or is performed.
C11_NavigationFailureTerminal ==
    result.error = "Navigation failed" =>
        /\ pc \in {"finally", "done"}
        /\ method = "none"
        /\ total_slides = 0
        /\ keys = 0
        /\ captures = 0
        /\ shots = 0
        /\ advances = 0
        /\ pdf_calls = 0
        /\ screenshots = << >>

\* a run that returned 'Navigation failed' after the goto timeout elapsed
C11_Witness ==
    /\ pc = "done"
    /\ result = Failure("Navigation failed")
    /\ elapsed = 60
    /\ browser # "open"

\* C12: whenever a Nuclear run has returned, on whichever exit path, a
\* browser that was launched is closed; no path returns with the browser
\* still running.
C12_BrowserClosedOnReturn ==
    pc = "done" => browser \in {"none", "closed"}

\* C13: a Nuclear run issues its surface operations in program order, one at
\* a time: nothing is sent before the navigation completed, the slide count
\* is returned before the first capture starts, capture(i) has been made and
\* advance(i) not yet issued when the run stands at advance(i), and both
\* capture(i) and advance(i) are done when capture(i+1) starts.
C13_ProgramOrder ==
    /\ pc \in {"launch", "navigate"} =>
          method = "none" /\ keys = 0 /\ captures = 0 /\ advances = 0
    /\ pc \in DetectPcs =>
          /\ elapsed >= 5
          /\ method = "none" /\ captures = 0 /\ advances = 0 /\ shots = 0
    /\ pc = "home" => method # "none" /\ captures = 0 /\ advances = 0
    /\ captures > 0 => method # "none"
    /\ pc = "capture" => captures = slide_num - 1 /\ advances = slide_num - 1
    /\ pc = "advance" => captures = slide_num /\ advances = slide_num - 1
    /\ advances <= captures /\ captures <= advances + 1
    /\ shots <= captures

\* the capture of slide 2 is about to start: capture(1) and advance(1) are done
C13_Witness ==
    /\ pc = "capture"
    /\ slide_num = 2
    /\ captures = 1
    /\ advances = 1
    /\ method # "none"

\* C14: in a Nuclear run a capture_slide call that returns None does not end
\* the capture loop: the failed slide has no frame, the loop ends only at the
\* end of range(1, total_slides + 1) or at the budget check, the advance of a
\* failed slide below total_slides is issued like any other, and a loop that
\* ended at the end of the range has attempted every slide up to total_slides.
C14_FailedCaptureContinues ==
    /\ failed \cap FrameSlides = {}
    /\ failed \subseteq 1..Attempted
    /\ (pc \in {"finalize", "finally", "done"} /\ captures > 0) =>
          stopped \in {"range", "budget"}
    /\ stopped = "budget" => BudgetExceeded(elapsed, timeout)
    /\ (stopped = "range" /\ total_slides >= 1) =>
          /\ captures = total_slides
          /\ advances = total_slides - 1
          /\ FrameSlides = (1..total_slides) \ failed
    /\ (pc = "loop" /\ last_capture.outcome \in {"not_ready", "shot_failed"}) =>
          /\ last_capture.slide = slide_num - 1
          /\ slide_num <= total_slides => advances = slide_num - 1

\* slide 1 failed, its advance was issued and slide 2 was then captured
C14_Witness ==
    /\ pc = "done"
    /\ stopped = "range"
    /\ 1 \in failed
    /\ 2 \in FrameSlides
    /\ advances >= 1
    /\ result.success

\* C15: a Nuclear run on a presentation of N pages whose counter shows the
\* total N, with budget B, in which every capture succeeded, the capture
\* loop ran to the end of its range (the time budget never tripped) and
\* nothing raised, returns success with slides = min(N, B), one PDF page
\* per slide.
C15_FullRunCapturesMin ==
    ( /\ pc = "done"
      /\ method = "counter"
      /\ faithful
      /\ failed = {}
      /\ stopped = "range"
      /\ result.error # "exception" )
    => /\ result.success
       /\ result.slides = Min(numPages, max_slides)
       /\ FrameSlides = 1..Min(numPages, max_slides)
       /\ Len(result.data) = Min(numPages, max_slides)

\* a two-page deck captured under a budget of one slide
C15_Witness ==
    /\ pc = "done"
    /\ method = "counter"
    /\ faithful
    /\ failed = {}
    /\ stopped = "range"
    /\ numPages = 2
    /\ max_slides = 1
    /\ result.success
    /\ result.slides = 1

\* C16: a FixedPitchDownloader run on a presentation with more pages than
\* max_slides whose detected slide count exceeds max_slides, and in which
\* nothing raised, returns success with exactly
\* max_slides frames, none of a slide beyond max_slides.
C16_OverBudgetCapturesMax ==
    ( /\ pc = "done"
      /\ method # "none"
      /\ numPages > max_slides
      /\ total_slides > max_slides
      /\ result.error \notin {"exception", "raised"} )
    => /\ result.success
       /\ result.slides = max_slides
       /\ FrameSlides = 1..max_slides

\* the t of a counter text of the form 'c/t': what follows its only slash
FormTails(t) ==
    { SubSeq(t, k + 1, Len(t)) :
        k \in { j \in 1..Len(t) :
                  /\ t[j] = "/"
                  /\ \A h \in (1..Len(t)) \ {j} : t[h] # "/" } }

\* C17: in the Nuclear detection, whenever the text read from the slide
\* counter element has the form 'c/t' with t an integer, the method returns
\* at once with min(t, max_slides), whatever c is, and no later strategy
\* (text pattern, key presses of the probe, fallback) runs; the counter
\* path is taken for such texts only.
C17_CounterTextDecides ==
    [][ /\ pc = "counter_parse" =>
            \A u \in FormTails(slide_text) :
                IsInt(u) =>
                    /\ pc' = "home"
                    /\ method' = "counter"
                    /\ total_slides' = Min(IntValue(u), max_slides)
                    /\ keys' = keys
                    /\ slide_count' = slide_count
        /\ (method = "none" /\ method' = "counter") =>
            /\ pc = "counter_parse"
            /\ \E u \in FormTails(slide_text) : IsInt(u)
      ]_vars

\* the counter text gave a total below the budget and the detection returned it
C17_Witness ==
    /\ pc = "home"
    /\ method = "counter"
    /\ max_slides = 3
    /\ total_slides = 2
    /\ keys = 0

\* C18: in the Nuclear detection with no counter text and no accepted text
\* pattern, on a presentation of N pages whose Next control is disabled
\* exactly on the last page, the navigation probe returns N, for every N
\* with 1 <= N <= min(20, max_slides).
C18_ProbeCountsPages ==
    ( /\ method \in {"probe_disabled", "probe_exhausted"}
      /\ faithful
      /\ 1 <= numPages
      /\ numPages <= Min(NuclearProbeLimit, max_slides) )
    => total_slides = numPages

\* C19: the Nuclear detect_slide_count never raises and never fails the run:
\* from every position inside it, whichever surface call raises or times
\* out, the run stays inside the detection or returns from it with an
\* integer estimate and goes on to step 4 (the Home key press that opens the
\* capture phase); no result is set and the browser stays open.
C19_DetectNeverFails ==
    [][ (pc \in DetectPcs) =>
            ( /\ pc' \in DetectPcs \cup {"home"}
              /\ result' = NoResult
              /\ browser' = "open"
              /\ (pc' = "home") => (method' # "none" /\ total_slides' \in Int) )
      ]_vars

\* the Home key press of the probe raised and the detection returned the
\* fallback; the run stands before step 4
C19_Witness ==
    /\ pc = "home"
    /\ method = "fallback"
    /\ total_slides = FallbackSlides
    /\ result = NoResult
    /\ browser = "open"

\* C20 (as stated): the readiness predicate of the Nuclear capture_slide is
\* false on every document whose visible text has 10 characters, and true on
\* every document whose visible text has 300 characters and that has no
\* loading/spinner/loader element.
C20_ReadyOnTextAndLoaders ==
    verdict # "none" =>
        /\ BodyTextLength(dom) = 10 => verdict = "not_ready"
        /\ (BodyTextLength(dom) = 300 /\ dom.loading = 0) => verdict = "ready"

\* C20 (amended): the predicate is false on every document whose visible
\* text has 10 characters; it is true on every document whose visible text
\* has 300 characters, that has no loading/spinner/loader element and whose
\* images are all complete with a non-zero natural width, and false when
\* such a document has an image that is not.
C20_ReadyOnTextLoadersImages ==
    verdict # "none" =>
        /\ BodyTextLength(dom) = 10 => verdict = "not_ready"
        /\ (BodyTextLength(dom) = 300 /\ dom.loading = 0) =>
              (verdict = "ready" <=>
                 \A k \in 1..Len(dom.images) :
                    dom.images[k].complete /\ dom.images[k].naturalWidth > 0)

\* a document of 300 visible characters without slide elements, with no
\* loader and both images loaded, was judged ready
C20_Witness ==
    /\ verdict = "ready"
    /\ BodyTextLength(dom) = 300
    /\ dom.pad = 2
    /\ dom.loading = 0
    /\ dom.slides = 0
    /\ Len(dom.images) = 2
    /\ \A k \in 1..2 : dom.images[k].complete /\ dom.images[k].naturalWidth = 640

\* the errors a Nuclear run returns when something other than the PDF
\* assembly fails: the three literal messages, and str(e) of an exception
\* raised by the Home key press of step 4
NonAssemblyErrors ==
    {"Browser launch failed", "Navigation failed", "No slides captured",
     "exception"}

\* C21: a Nuclear run whose PDF assembly raised returns a failure whose
\* error differs from every error returned for launch, navigation, key
\* press and capture failures, and the result still carries the frames that
\* were captured.
C21_AssemblyFailureDistinct ==
    (pc = "done" /\ pdf_calls = 1 /\ ~result.success) =>
        /\ result.error \notin NonAssemblyErrors
        /\ Len(result.data) = Len(screenshots)

\* what a complete, undisturbed run on a presentation of k slides returns:
\* success with frame i taken on page i, for i = 1..k
CompleteRunResult(k) == Success([i \in 1..k |-> Frame(i, i)])

\* C22: a Nuclear run whose capture loop was cut by the time budget after k
\* of its total_slides slides returns a result that differs from the result
\* of a complete run on a k-slide presentation.
C22_TruncationDistinguished ==
    ( /\ pc = "done"
      /\ stopped = "budget"
      /\ faithful
      /\ result.success
      /\ result.slides < total_slides )
    => result # CompleteRunResult(result.slides)

\* C23: in a Nuclear run whose time budget leaves a capture window of at
\* least 30 seconds, whenever the navigation succeeded and the detection
\* returned an estimate >= 1, the first capture-loop iteration finds
\* elapsed <= timeout - 30 and the capture of slide 1 is attempted.
C23_DetectionLeavesBudget ==
    /\ ( /\ pc = "loop"
         /\ slide_num = 1
         /\ total_slides >= 1
         /\ timeout - Reserve >= 30 )
       => ~BudgetExceeded(elapsed, timeout)
    /\ ( /\ pc \in {"finalize", "finally", "done"}
         /\ stopped # "none"
         /\ total_slides >= 1
         /\ timeout - Reserve >= 30 )
       => captures >= 1

\* iterations of the capture loop still to come, at most
SlidesLeft ==
    IF total_slides + 1 - slide_num > 0 THEN total_slides + 1 - slide_num ELSE 0

\* the largest value detect_slide_count can return
LargestEstimate ==
    IF max_slides > NuclearProbeLimit + 1 THEN max_slides
    ELSE NuclearProbeLimit + 1

\* steps a Nuclear run can still take, at most: three per remaining slide,
\* one per remaining probe iteration, one per remaining phase
StepsLeft ==
    LET capture_phase == 3 * (LargestEstimate + 1) + 6
        probe_limit == Min(NuclearProbeLimit, max_slides)
    IN  CASE pc = "done" -> 0
          [] pc = "finally" -> 1
          [] pc = "finalize" -> 2
          [] pc = "advance" -> 3 + 3 * SlidesLeft
          [] pc = "capture" -> 4 + 3 * SlidesLeft
          [] pc = "loop" -> 5 + 3 * SlidesLeft
          [] pc = "home" -> capture_phase
          [] pc = "probe_exit" -> capture_phase + 1
          [] pc = "probe" -> capture_phase + 2 + (probe_limit - probe_i)
          [] pc = "detect_probe" -> capture_phase + 3 + probe_limit
          [] pc = "detect_pattern" -> capture_phase + 4 + probe_limit
          [] pc = "counter_parse" -> capture_phase + 5 + probe_limit
          [] pc = "detect_counter" -> capture_phase + 6 + probe_limit
          [] pc = "navigate" -> capture_phase + 7 + probe_limit
          [] pc = "launch" -> capture_phase + 8 + probe_limit

\* C24: every Nuclear run eventually returns a result, provided each surface
\* call eventually returns or raises: until the run has returned some step
\* is possible, every step lowers the bounded count of steps left (the
\* probe loop runs at most min(20, max_slides) iterations, the capture loop
\* at most one per slide number), and a run that has returned has a result.
C24_RunReturns ==
    /\ [](pc # "done" => ENABLED Next)
    /\ [](StepsLeft >= 0 /\ probe_i <= Min(NuclearProbeLimit, max_slides))
    /\ [](pc = "done" => result # NoResult)
    /\ [][StepsLeft' < StepsLeft]_vars

\* a run that exhausted the probe loop and the capture loop and returned
C24_Witness ==
    /\ pc = "done"
    /\ method = "probe_exhausted"
    /\ probe_i = Min(NuclearProbeLimit, max_slides)
    /\ max_slides = MaxBudget
    /\ stopped = "range"
    /\ captures = total_slides
    /\ result # NoResult

\* C25: the document a Nuclear run assembles from its n >= 1 frames has
\* exactly n pages, page k holding frame k and nothing else; assembling the
\* same frames again gives the same pages, and the 'slides' value of the
\* result is that page count.
C25_OnePagePerFrame ==
    result.success =>
        /\ screenshots # << >>
        /\ Len(result.data) = Len(screenshots)
        /\ \A k \in 1..Len(screenshots) : result.data[k] = << screenshots[k] >>
        /\ CreatePdf(screenshots) = result.data
        /\ result.slides = Len(result.data)

\* a document of three pages was assembled
C25_Witness ==
    /\ pc = "done"
    /\ result.success
    /\ Len(screenshots) = 3
    /\ Len(result.data) = 3


\* a session between its construction and the return of its run
SessionActive(s) ==
    downloaders[s].pc \in {"launch", "navigate", "detect", "probe",
                           "probe_press", "home", "loop", "capture",
                           "finally"}

\* a shutdown request sent to the process reaches session s
RequestReaches(s) == \A sig \in Signals : handlers[sig] = s

\* what the claim protects of a session
SessionView(s) ==
    << downloaders[s].shutdown_requested, RequestReaches(s),
       downloaders[s].browser, downloaders[s].screenshots >>

\* C26: while a RobustPitchDownloader session is active, no step in which
\* another session acts (its construction included) changes the session's
\* cancellation flag, the delivery of shutdown requests to it, its browser
\* or its frames.
C26_SessionsShareNothing ==
    [][ \A s \in SessionIds : \A t \in SessionIds \ {s} :
          (SessionActive(s) /\ downloaders[t]' # downloaders[t]) =>
              SessionView(s)' = SessionView(s) ]_vars


\* C27: the capture loop of NuclearPitchDownloader tests the time budget at
\* the top of every iteration, before anything else: a capture is only ever
\* started, for a slide number in 1..total_slides, in an iteration that began
\* with elapsed <= timeout - 30, and an iteration of any slide number that
\* begins later than that ends the loop without a capture, a key press or a
\* screenshot.
C27_BudgetCheckedEveryIteration ==
    /\ [](pc = "capture" =>
            /\ slide_num \in 1..total_slides
            /\ elapsed <= timeout - Reserve)
    /\ [][ captures' > captures => elapsed <= timeout - Reserve ]_vars
    /\ [][ (pc = "loop" /\ slide_num <= total_slides
              /\ elapsed > timeout - Reserve) =>
               /\ pc' = "finalize"
               /\ stopped' = "budget"
               /\ captures' = captures
               /\ keys' = keys
               /\ shots' = shots ]_vars

\* the check stopped the loop at the top of the iteration of slide 2 of 3
C27_Witness ==
    /\ pc = "finalize"
    /\ stopped = "budget"
    /\ slide_num = 2
    /\ total_slides = 3
    /\ captures = 1
    /\ elapsed > timeout - Reserve


\* C28: the text-pattern strategy of NuclearPitchDownloader.detect_slide_count
\* returns only from a matched pair (N, M) with 1 <= N <= M <= 50, the
\* estimate it returns is min(M, max_slides) of that pair, and every estimate
\* of the strategy lies in 1..min(50, max_slides).
C28_PatternPairInRange ==
    /\ match # << >> =>
          /\ pc = "home"
          /\ method = "pattern"
          /\ 1 <= match[1]
          /\ match[1] <= match[2]
          /\ match[2] <= 50
          /\ total_slides = Min(match[2], max_slides)
    /\ (method = "pattern" /\ pc = "home") => match # << >>
    /\ method = "pattern" => total_slides \in 1..Min(50, max_slides)

\* the strategy returned from the pair (5, 50), clamped to a budget of 3
C28_Witness ==
    /\ pc = "home"
    /\ method = "pattern"
    /\ match = << 5, 50 >>
    /\ max_slides = 3
    /\ total_slides = 3


\* C29: when the body text holds no counter and at least one of the slide,
\* dot/indicator and pagination families has an element, the DOM-density
\* step of AlternativePitchDownloader.detect_slide_count_sync returns the
\* maximum of the three counts, clamped to max_slides.
C29_DensityTakesMaximum ==
    (pc = "home" /\ method = "density") =>
        /\ counts # NoCounts
        /\ total_slides =
              Min(Max(counts.slides, Max(counts.dots, counts.pagination)),
                  max_slides)


\* C30: a call of SeleniumPitchDownloader.navigate_to_next_slide_sync
\* delivers a single advance input to the surface, never more (none when
\* the input raises), so no frame is captured on a page beyond the page of
\* its slide number.
C30_SingleAdvancePerCall ==
    /\ [](\A k \in 1..Len(screenshots) :
             screenshots[k].page <= screenshots[k].slide)
    /\ [][ advances' = advances + 1 => keys' <= keys + 1 ]_vars


\* C31: the capture loop of NuclearPitchDownloader issues one ArrowRight
\* advance after the capture attempt of every slide below total_slides and
\* none after slide total_slides: the advances issued so far are those of the
\* slides already left behind, at most total_slides - 1, each issued from the
\* advance step of a slide below total_slides, and the surface is never moved
\* past page total_slides by the loop.
C31_OneAdvancePerSlide ==
    /\ [](advances = Max(0, Min(slide_num - 1, total_slides - 1)))
    /\ [](slide_num >= 1 => curPage <= Max(1, total_slides))
    /\ [][ advances' # advances =>
              /\ pc = "advance"
              /\ slide_num < total_slides
              /\ advances' = advances + 1
              /\ keys' <= keys + 1
              /\ slide_num' = slide_num + 1 ]_vars

\* a complete run over three slides has advanced twice
C31_Witness ==
    /\ pc = "done"
    /\ result.success
    /\ total_slides = 3
    /\ captures = 3
    /\ advances = 2
    /\ curPage = 3


\* C32: when the content-validation script of
\* AlternativePitchDownloader.capture_slide_sync raises, the capture goes on
\* as for a false verdict: the screenshot of the slide is still requested,
\* and its frame is appended when the screenshot is returned.
C32_ProbeErrorNotFatal ==
    verdict = "error" =>
        /\ shots = captures
        /\ last_capture.outcome \in {"ok", "shot_failed"}
        /\ last_capture.outcome = "ok" => Len(screenshots) = captures


\* C33: StealthPitchDownloader.capture_slide_sync evaluates the readiness
\* predicate at most 5 times for a slide and never again after a ready
\* verdict, and when the call has returned it has taken exactly one
\* screenshot, whether or not an attempt reported ready.
C33_OneScreenshotAfterPolling ==
    /\ [](attempt <= StealthMaxAttempts)
    /\ [][ verdict = "ready" => attempt' = attempt ]_vars
    /\ [](pc = "advance" => shots = 1)


\* C34: the navigation probe of NuclearPitchDownloader.detect_slide_count
\* issues at most min(20, max_slides) ArrowRight inputs after its Home, one
\* per step, and goes on to a further step only after a step in which no
\* primitive raised and the Next control did not report disabled; once it
\* has stopped it sends no further input.
C34_ProbeBounded ==
    /\ [](pc # "detect_probe" => keys <= 1 + Min(20, max_slides))
    /\ [](method = "probe_disabled" => pc = "home")
    /\ [][ pc = "probe" =>
              /\ keys' <= keys + 1
              /\ pc' = "probe" =>
                    /\ keys' = keys + 1
                    /\ probe_i' = probe_i + 1
                    /\ slide_count' = slide_count + 1
                    /\ method' = "none" ]_vars
    /\ [][ (pc = "probe_exit" \/ pc = "home") => keys' = keys ]_vars

\* with a budget of 21 slides the probe stopped after its 20th ArrowRight
C34_Witness ==
    /\ pc = "home"
    /\ method = "probe_exhausted"
    /\ max_slides = 21
    /\ keys = 21
    /\ total_slides = 21


\* C35: whatever the counter text, the page text and the probe answer,
\* NuclearPitchDownloader.detect_slide_count returns an integer of at least 1,
\* so the capture loop that follows a detection has a slide to capture.
C35_DetectAtLeastOne ==
    /\ method # "none" => total_slides >= 1
    /\ (pc = "finalize" /\ stopped = "range") => captures >= 1


\* the page a surface of numPages pages displays after Home and n - 1
\* delivered ArrowRight presses
PageAfterAdvances(n) == Min(n, numPages)

\* C36: every frame NuclearPitchDownloader records for slide number i, taken
\* after the advances before it were all delivered, shows page i, and no two
\* such frames show the same page, whichever detection strategy produced
\* total_slides.
C36_FrameShowsItsPage ==
    \A j \in 1..Len(screenshots) : \A k \in 1..Len(screenshots) :
        ( /\ screenshots[j].page = PageAfterAdvances(screenshots[j].slide)
          /\ screenshots[k].page = PageAfterAdvances(screenshots[k].slide) )
        => /\ screenshots[j].page = screenshots[j].slide
           /\ j # k => screenshots[j].page # screenshots[k].page


\* C37: a DirectPitchDownloader run passes its navigation step, and takes a
\* slide screenshot, only after a page.goto to the target has completed in
\* the same run.
C37_ShotsOnlyAfterGoto ==
    /\ pc \in {"navigate_check", "detect", "loop"} => page_url = "target"
    /\ shots > 0 => page_url = "target"


\* C38 (as stated): with a timeout of at most 30 every Nuclear run ends with
\* the failure 'No slides captured'.
C38_AlwaysNoSlidesCaptured ==
    (timeout <= 30 /\ pc = "done") => result = Failure("No slides captured")

\* C38 (amended): with a timeout of at most 30 the budget check trips at the
\* first iteration of the capture loop, no capture is ever attempted, and every
\* run that reaches the loop ends with the failure 'No slides captured'.
C38_ShortTimeoutCapturesNothing ==
    /\ [](timeout <= 30 =>
            captures = 0 /\ shots = 0 /\ NoFrames(screenshots))
    /\ [][ (timeout <= 30 /\ pc = "loop" /\ slide_num <= total_slides) =>
             (pc' = "finalize" /\ stopped' = "budget" /\ slide_num = 1) ]_vars
    /\ []((timeout <= 30 /\ pc = "done" /\ stopped # "none") =>
            result = Failure("No slides captured"))

C38_Witness ==
    /\ pc = "done"
    /\ timeout = 30
    /\ total_slides >= 2
    /\ stopped = "budget"
    /\ slide_num = 1
    /\ result = Failure("No slides captured")


\* C39: FixedPitchDownloader.download_presentation never lets an exception
\* escape: every finished call, the one whose browser close failed included,
\* hands the caller a result dict with a success flag.
C39_NoExceptionEscapes ==
    pc = "done" =>
        /\ result # Escaped
        /\ result # NoResult
        /\ (~result.success => result.error # "")


\* C40: run against the same surface answers with the same max_slides and
\* timeout, SimpleRobustPitchDownloader and SyncRobustPitchDownloader issue
\* the same sequence of surface operations and return results with the same
\* success flag, error text and slide count.
C40_SimpleSyncEquivalent ==
    (runs.simple.done /\ runs.sync.done) =>
        /\ runs.simple.ops = runs.sync.ops
        /\ runs.simple.success = runs.sync.success
        /\ runs.simple.error = runs.sync.error
        /\ runs.simple.slides = runs.sync.slides

C40_Witness ==
    /\ runs.simple.done /\ runs.sync.done
    /\ runs.sync.success
    /\ runs.sync.slides = 2
    /\ surface.shot_fail = {2}
    /\ surface.arrow_fail = {1}
    /\ max_slides = 3
    /\ Len(runs.simple.ops) = 5 + 3 + 2 + 1

====
